---- MODULE Spec2Model ----
(***************************************************************************)
(* Model of the product synchronisation scripts: the reference resolver    *)
(* and variant grouping (utils/helpers.py), the mapping store              *)
(* (db/product_mapper.py over the schema of db/migrations.py) and the      *)
(* creation flow (main.py).                                                *)
(*                                                                         *)
(* Text is a sequence of one-character strings, so that splitting and      *)
(* stripping are computed and not assumed.  Python's None is the           *)
(* one-element sequence None, which no text equals.                        *)
(***************************************************************************)
EXTENDS Integers, Sequences, FiniteSets, TLC

VARIABLES
    product_mappings,  \* rows of table product_mappings, in insertion order
    variant_mappings,  \* rows of table variant_mappings, in insertion order
    sync_log,          \* rows of table sync_log, in insertion order
    last,              \* the most recent ProductMapper call: arguments, result, tables before it
    ops,               \* number of client calls issued so far
    faults,            \* number of injected environment failures so far
    remote,            \* products created on the remote platform, in creation order
    pc,                \* position of the creation flow
    cur,               \* the record being created (product_data, variants_data, new_product)
    df,                \* the input rows of process_products
    grouped,           \* group_variants' dictionary, as a sequence of buckets in insertion order
    idx,               \* loop index of process_products / group_variants
    tally,             \* products_processed and products_failed
    runs,              \* number of process_products runs started
    display_mode,      \* process_products' display_mode of the current run
    reference,         \* resolver input
    resolved,          \* resolver outputs
    trace,             \* what the current run has done so far: calls, pauses, log lines
    csv,               \* the input rows of process_csv_updates
    upd,               \* process_csv_updates: reference_info, counters, demo_mode
    sys_argv,          \* main's command line and the state of the input file
    mainst             \* main: position, exit code, whether the API was configured

vars == <<product_mappings, variant_mappings, sync_log, last, ops, faults, remote,
          pc, cur, df, grouped, idx, tally, runs, display_mode, reference, resolved,
          trace, csv, upd, sys_argv, mainst>>

storeVars == <<product_mappings, variant_mappings, sync_log, last>>
flowVars == <<remote, pc, cur>>
runVars == <<df, grouped, idx, tally, runs, display_mode>>
refVars == <<reference, resolved>>
updVars == <<csv, upd>>
mainVars == <<sys_argv, mainst>>

-----------------------------------------------------------------------------
(* Bounds of the model *)

MaxOps == 3
MaxFaults == 1
MaxRuns == 2
MaxLen == 4
MaxRows == 2
MaxDeletes == 1
MaxSuffix == 2

-----------------------------------------------------------------------------
(* Text *)

None == <<"<None>">>
Slash == "/"
Space == " "

ABC == <<"A", "B", "C">>
XYZ == <<"X", "Y", "Z">>
S == <<"S">>
M == <<"M">>

Join(a, b) == a \o <<Slash>> \o b

\* '/' in reference
is_variant_reference(r) == \E i \in 1..Len(r) : r[i] = Slash

FirstSlash(r) == CHOOSE i \in 1..Len(r) : r[i] = Slash /\ \A j \in 1..(i-1) : r[j] # Slash

\* str.split('/'): the segments between consecutive '/'
RECURSIVE split(_)
split(r) ==
    IF ~ is_variant_reference(r) THEN <<r>>
    ELSE LET i == FirstSlash(r)
         IN  <<SubSeq(r, 1, i-1)>> \o split(SubSeq(r, i+1, Len(r)))

\* The reference taken whole, the split forgotten.
BaseReferenceUnsplit(r) == r

get_base_reference(r) == IF is_variant_reference(r) THEN split(r)[1] ELSE r

get_variant_size(r) == IF is_variant_reference(r) THEN split(r)[2] ELSE None

\* str.strip() for the blank character
RECURSIVE lstrip(_)
lstrip(s) == IF s # <<>> /\ Head(s) = Space THEN lstrip(Tail(s)) ELSE s

RECURSIVE rstrip(_)
rstrip(s) == IF s # <<>> /\ s[Len(s)] = Space THEN rstrip(SubSeq(s, 1, Len(s)-1)) ELSE s

strip(s) == rstrip(lstrip(s))

IsNanText(s) == s = <<"n","a","n">> \/ s = <<"N","a","N">>

\* clean_value of a text cell; isna says whether the cell is None/NaN
clean_value(isna, s) ==
    IF isna \/ IsNanText(s) \/ strip(s) = <<>> THEN <<>> ELSE strip(s)

-----------------------------------------------------------------------------
(* The mapping store: tables of db/migrations.py, statements of            *)
(* db/product_mapper.py.  Keys compare by value; every reference of the    *)
(* model is distinct from every other under the tables' collation.         *)

HasProduct(pm, ref) == \E i \in 1..Len(pm) : pm[i].internal_reference = ref
HasVariant(vm, sku) == \E i \in 1..Len(vm) : vm[i].internal_sku = sku

ProductRows(pm, ref) == SelectSeq(pm, LAMBDA r : r.internal_reference = ref)
VariantRows(vm, sku) == SelectSeq(vm, LAMBDA r : r.internal_sku = sku)
ChildRows(vm, ref) == SelectSeq(vm, LAMBDA r : r.parent_reference = ref)

ProductRow(ref, p) ==
    [internal_reference |-> ref, shopify_product_id |-> p.id,
     shopify_handle |-> p.handle, title |-> p.title]

\* price or variant.price
PriceArg(v, price) == IF price = 0 THEN v.price ELSE price

VariantRow(sku, v, parent, size, price) ==
    [internal_sku |-> sku, shopify_variant_id |-> v.id, shopify_product_id |-> v.product_id,
     parent_reference |-> parent, size |-> size, price |-> PriceArg(v, price)]

\* A table without the UNIQUE key: every insert adds a row.
InsertProductNoKey(pm, ref, p) == Append(pm, ProductRow(ref, p))

\* The first write wins: ON DUPLICATE KEY leaves the row as it is.
InsertProductIgnore(pm, ref, p) ==
    IF HasProduct(pm, ref) THEN pm ELSE Append(pm, ProductRow(ref, p))

\* INSERT INTO product_mappings ... ON DUPLICATE KEY UPDATE ...
UpsertProduct(pm, ref, p) ==
    IF HasProduct(pm, ref)
    THEN [i \in 1..Len(pm) |->
            IF pm[i].internal_reference = ref
            THEN [pm[i] EXCEPT !.shopify_product_id = p.id,
                               !.shopify_handle = p.handle,
                               !.title = p.title]
            ELSE pm[i]]
    ELSE Append(pm, ProductRow(ref, p))

\* A table without the FOREIGN KEY.
ForeignKeyOff(pm, parent) == TRUE

\* The FOREIGN KEY of variant_mappings: a new row needs its parent.
ForeignKeyOk(pm, parent) == HasProduct(pm, parent)

\* Whether the statement of save_variant_mapping is accepted by the schema.
\* An existing internal_sku takes the ON DUPLICATE KEY UPDATE branch, which
\* does not write parent_reference.
VariantStmtAccepted(pm, vm, sku, parent) ==
    HasVariant(vm, sku) \/ ForeignKeyOk(pm, parent)

\* An update branch that writes parent_reference as well.
UpsertVariantReparents(vm, sku, v, parent, size, price) ==
    IF HasVariant(vm, sku)
    THEN [i \in 1..Len(vm) |->
            IF vm[i].internal_sku = sku THEN VariantRow(sku, v, parent, size, price) ELSE vm[i]]
    ELSE Append(vm, VariantRow(sku, v, parent, size, price))

\* INSERT INTO variant_mappings ... ON DUPLICATE KEY UPDATE ...
UpsertVariant(vm, sku, v, parent, size, price) ==
    IF HasVariant(vm, sku)
    THEN [i \in 1..Len(vm) |->
            IF vm[i].internal_sku = sku
            THEN [vm[i] EXCEPT !.shopify_variant_id = v.id,
                               !.shopify_product_id = v.product_id,
                               !.size = size,
                               !.price = PriceArg(v, price)]
            ELSE vm[i]]
    ELSE Append(vm, VariantRow(sku, v, parent, size, price))

\* DELETE FROM product_mappings WHERE internal_reference = ref
DeleteProduct(pm, ref) == SelectSeq(pm, LAMBDA r : r.internal_reference # ref)

\* A schema without ON DELETE CASCADE that lets the delete through.
CascadeNone(vm, ref) == vm

\* ON DELETE CASCADE of variant_mappings.parent_reference
Cascade(vm, ref) == SelectSeq(vm, LAMBDA r : r.parent_reference # ref)

\* A failed statement whose effect is kept.
ExecuteQueryNoRollback(before, after, ok) == after

\* execute_query: commit when the statement succeeds, rollback when it raises.
ExecuteQuery(before, after, ok) == IF ok THEN after ELSE before

\* A log that always reports success.
StatusAlwaysSuccess(ok) == "success"

\* The status column of the entry a call writes
StatusOf(ok) == IF ok THEN "success" ELSE "error"

LogEntry(ref, action, ok) ==
    [internal_reference |-> ref, action |-> action, status |-> StatusOf(ok)]

\* A log that keeps one entry per reference, the latest.
LogSyncLatestOnly(log, ref, action, ok, logOk) ==
    IF logOk
    THEN Append(SelectSeq(log, LAMBDA e : e.internal_reference # ref), LogEntry(ref, action, ok))
    ELSE log

\* _log_sync: the insert is attempted once; its failure is swallowed.
LogSync(log, ref, action, ok, logOk) ==
    IF logOk THEN Append(log, LogEntry(ref, action, ok)) ELSE log

\* Python's None as the result of a lookup
NotFound == [found |-> FALSE]

\* get_product_mapping: None, or the product row and its child rows
get_product_mapping(pm, vm, ref, readOk) ==
    IF ~ readOk \/ ProductRows(pm, ref) = <<>> THEN NotFound
    ELSE [found |-> TRUE, product |-> ProductRows(pm, ref)[1], variants |-> ChildRows(vm, ref)]

\* get_variant_mapping: None, or the variant row
get_variant_mapping(vm, sku, readOk) ==
    IF ~ readOk \/ VariantRows(vm, sku) = <<>> THEN NotFound
    ELSE [found |-> TRUE, variant |-> VariantRows(vm, sku)[1]]

\* A call whose statement or log insert is made to fail counts as one failure.
Cost(stmtOk, logOk) == IF stmtOk /\ logOk THEN 0 ELSE 1

\* The method's result when _log_sync itself raises: the failed log insert
\* reaches the method's own except branch.
ReturnValueLogRaises(ok, logOk) == ok /\ logOk

\* return True after the statement and _log_sync, return False from the except
\* branch; _log_sync raises nothing, so the log insert has no part in it
ReturnValue(ok, logOk) == ok

CallRecord(op, key, args, ok, logOk) ==
    [op |-> op, key |-> key, args |-> args, stmt |-> ok, ret |-> ReturnValue(ok, logOk),
     logOk |-> logOk,
     pm |-> product_mappings, vm |-> variant_mappings, nlog |-> Len(sync_log)]

\* ProductMapper.save_product_mapping(internal_reference, shopify_product)
save_product_mapping(ref, p, stmtOk, logOk) ==
    /\ faults + Cost(stmtOk, logOk) <= MaxFaults
    /\ faults' = faults + Cost(stmtOk, logOk)
    /\ product_mappings' = ExecuteQuery(product_mappings,
                                        UpsertProduct(product_mappings, ref, p), stmtOk)
    /\ variant_mappings' = variant_mappings
    /\ sync_log' = LogSync(sync_log, ref, "create_product", stmtOk, logOk)
    /\ last' = CallRecord("save_product_mapping", ref, <<p>>, stmtOk, logOk)

\* ProductMapper.save_variant_mapping(internal_sku, variant, parent_reference, size, price)
save_variant_mapping(sku, v, parent, size, price, stmtOk, logOk) ==
    LET ok == stmtOk /\ VariantStmtAccepted(product_mappings, variant_mappings, sku, parent)
    IN  /\ faults + Cost(stmtOk, logOk) <= MaxFaults
        /\ faults' = faults + Cost(stmtOk, logOk)
        /\ variant_mappings' =
              ExecuteQuery(variant_mappings,
                           UpsertVariant(variant_mappings, sku, v, parent, size, price), ok)
        /\ product_mappings' = product_mappings
        /\ sync_log' = LogSync(sync_log, sku, "create_variant", ok, logOk)
        /\ last' = CallRecord("save_variant_mapping", sku, <<v, parent, size, price>>, ok, logOk)

\* ProductMapper.delete_product_mapping(internal_reference)
delete_product_mapping(ref, stmtOk, logOk) ==
    /\ faults + Cost(stmtOk, logOk) <= MaxFaults
    /\ faults' = faults + Cost(stmtOk, logOk)
    /\ product_mappings' = ExecuteQuery(product_mappings,
                                        DeleteProduct(product_mappings, ref), stmtOk)
    /\ variant_mappings' = ExecuteQuery(variant_mappings,
                                        Cascade(variant_mappings, ref), stmtOk)
    /\ sync_log' = LogSync(sync_log, ref, "delete_product", stmtOk, logOk)
    /\ last' = CallRecord("delete_product_mapping", ref, <<>>, stmtOk, logOk)

-----------------------------------------------------------------------------
(* Inputs of the client calls *)

StoreRefs == {ABC, XYZ}
StoreSkus == {Join(ABC, S), Join(ABC, M)}

ShopifyProducts ==
    {[id |-> 1, handle |-> <<<<ABC, "Anillo">>, 0>>, title |-> <<ABC, "Anillo">>],
     [id |-> 2, handle |-> <<<<ABC, "Anillo">>, 1>>, title |-> <<ABC, "Anillo">>]}

ShopifyVariants ==
    {[id |-> 11, product_id |-> 1, price |-> 220, inventory_item_id |-> 101],
     [id |-> 21, product_id |-> 2, price |-> 440, inventory_item_id |-> 201]}

\* (variant, size, price) as a caller passes them; price 0 stands for an omitted price
VariantArgs ==
    {<<v, S, 220>> : v \in {w \in ShopifyVariants : w.id = 11}}
        \cup {<<v, M, 0>> : v \in {w \in ShopifyVariants : w.id = 21}}

NoCall ==
    [op |-> "none", key |-> <<>>, args |-> <<>>, stmt |-> FALSE, ret |-> FALSE, logOk |-> FALSE,
     pm |-> <<>>, vm |-> <<>>, nlog |-> 0]

NoRecord ==
    [kind |-> "none", caller |-> "none", product_data |-> <<>>, variants_data |-> <<>>,
     new_product |-> <<>>, i |-> 0, result |-> FALSE]

InitStore ==
    /\ product_mappings = <<>>
    /\ variant_mappings = <<>>
    /\ sync_log = <<>>
    /\ last = NoCall
    /\ ops = 0
    /\ faults = 0

InitFlow ==
    /\ remote = <<>>
    /\ pc = "idle"
    /\ cur = NoRecord

InitRun ==
    /\ df = <<>>
    /\ grouped = <<>>
    /\ idx = 0
    /\ tally = [processed |-> 0, failed |-> 0]
    /\ runs = 0
    /\ display_mode = FALSE

Unresolved == [done |-> FALSE, is_variant |-> FALSE, base |-> <<>>, size |-> None]

InitRef ==
    /\ reference = <<>>
    /\ resolved = Unresolved

\* process_csv_updates not started
NoUpdate ==
    [info |-> <<>>, duplicated_rows |-> <<>>, idx |-> 0, demo_mode |-> FALSE,
     current_product |-> [found |-> FALSE],
     total_processed |-> 0, total_success |-> 0, total_errors |-> 0, summary |-> FALSE]

InitUpd ==
    /\ csv = <<>>
    /\ upd = NoUpdate

\* main not started
NoMain == [pc |-> "none", exit |-> 0, configured |-> FALSE, num_lines |-> 0, mode_type |-> <<>>]

InitMain ==
    /\ sys_argv = [argc |-> 0, mode |-> <<>>, file |-> "none"]
    /\ mainst = NoMain

-----------------------------------------------------------------------------
(* Input rows.  A row holds its cells and na, the set of columns whose     *)
(* cell is NaN.  PRECIO and STOCK are whole numbers.                       *)

Row(ref, desc, precio, nacols) ==
    [REFERENCIA |-> ref, DESCRIPCION |-> desc, PRECIO |-> precio, TIPO |-> "anillo",
     STOCK |-> 1, na |-> nacols]

RowABC_S == Row(Join(ABC, S), "Anillo", 10, {})
RowABC_M == Row(Join(ABC, M), "Anillo", 20, {})
RowABC == Row(ABC, "Anillo", 10, {})
RowXYZ == Row(XYZ, "Sello", 30, {})
RowPadded == Row(<<Space>> \o Join(ABC, S), "Anillo", 40, {})
RowNoDesc == Row(XYZ, "", 30, {"DESCRIPCION"})

Rows == {RowABC_S, RowABC_M, RowABC, RowXYZ, RowPadded, RowNoDesc}

RECURSIVE SeqsUpTo(_, _)
SeqsUpTo(set, n) ==
    IF n = 0 THEN {<<>>}
    ELSE LET shorter == SeqsUpTo(set, n - 1)
         IN  shorter \cup {Append(q, x) : q \in shorter, x \in set}

DataFrames == SeqsUpTo(Rows, MaxRows)

\* Rows that lack a required cell: PRECIO empty, TIPO blank, REFERENCIA empty
RowNoPrice == Row(ABC, "Anillo", 0, {"PRECIO"})
RowBlankTipo == [Row(ABC, "Anillo", 10, {}) EXCEPT !.TIPO = ""]
RowNoRef == Row(<<>>, "Anillo", 10, {"REFERENCIA"})

\* A row whose STOCK cell is empty: int(base_row['STOCK']) raises
RowNoStock == Row(ABC, "Anillo", 10, {"STOCK"})

\* Inputs whose first record fails validation, or raises while it is prepared,
\* and whose second one is sound
InvalidFrames ==
    {<<RowNoPrice, RowXYZ>>, <<RowBlankTipo, RowXYZ>>, <<RowNoRef, RowABC_S>>,
     <<RowNoStock, RowXYZ>>}

RowReference(row) == clean_value("REFERENCIA" \in row.na, row.REFERENCIA)

HasBucket(products, key) == \E i \in 1..Len(products) : products[i].key = key

NewBucket(key, row) ==
    [key |-> key, is_variant_product |-> FALSE, base_data |-> row, variants |-> <<>>]

\* The bucket update of group_variants with the bare row never kept.
AddToBucketVariantsOnly(b, row, ref) ==
    IF is_variant_reference(ref)
    THEN [b EXCEPT !.is_variant_product = TRUE, !.variants = Append(@, row)]
    ELSE b

\* The bucket update with base_data taken over by each row that has a '/'.
AddToBucketRebased(b, row, ref) ==
    IF is_variant_reference(ref)
    THEN [b EXCEPT !.is_variant_product = TRUE, !.variants = Append(@, row),
                   !.base_data = row]
    ELSE IF Len(b.variants) = 0
         THEN [b EXCEPT !.variants = Append(@, row)]
         ELSE b

\* group_variants, lines 130-134: what one row does to its bucket
AddToBucket(b, row, ref) ==
    IF is_variant_reference(ref)
    THEN [b EXCEPT !.is_variant_product = TRUE, !.variants = Append(@, row)]
    ELSE IF Len(b.variants) = 0
         THEN [b EXCEPT !.variants = Append(@, row)]
         ELSE b

\* group_variants: the body of the loop, for one row
GroupRow(products, row) ==
    LET ref == RowReference(row)
        base == get_base_reference(ref)
        opened == IF HasBucket(products, base) THEN products
                  ELSE Append(products, NewBucket(base, row))
    IN  [i \in 1..Len(opened) |->
            IF opened[i].key = base THEN AddToBucket(opened[i], row, ref) ELSE opened[i]]

RECURSIVE GroupFrom(_, _, _)
GroupFrom(products, rows, i) ==
    IF i > Len(rows) THEN products ELSE GroupFrom(GroupRow(products, rows[i]), rows, i + 1)

group_variants(rows) == GroupFrom(<<>>, rows, 1)

\* round(float(PRECIO) * 2.2, 2), in tenths
SalePrice(precio) == precio * 22

\* if size: None and the empty text are false
Truthy(size) == size # None /\ size # <<>>

\* prepare_variants_data: the entry of one row (none when it has no size)
VariantData(row) ==
    LET ref == RowReference(row)
        size == get_variant_size(ref)
    IN  IF Truthy(size)
        THEN <<[size |-> size, price |-> SalePrice(row.PRECIO), sku |-> ref,
                stock |-> row.STOCK]>>
        ELSE <<>>

RECURSIVE prepare_variants_data(_)
prepare_variants_data(rows) ==
    IF rows = <<>> THEN <<>> ELSE VariantData(Head(rows)) \o prepare_variants_data(Tail(rows))

\* prepare_variants_data raises when int(STOCK) of a sized row does
PrepareVariantsRaises(rows) ==
    \E i \in 1..Len(rows) :
        /\ Truthy(get_variant_size(RowReference(rows[i])))
        /\ "STOCK" \in rows[i].na

\* A validation that accepts every row.
ValidateNothing(row) == TRUE

\* validate_product_data: REFERENCIA, DESCRIPCION, PRECIO and TIPO present and not blank
validate_product_data(row) ==
    /\ row.na \cap {"REFERENCIA", "DESCRIPCION", "PRECIO", "TIPO"} = {}
    /\ strip(row.REFERENCIA) # <<>>
    /\ row.DESCRIPCION # ""
    /\ row.TIPO # ""

\* prepare_product_data raises when int(STOCK) does
PrepareRaises(row) == "STOCK" \in row.na

\* prepare_product_data; the title is "<base> - <description>"
prepare_product_data(base_row, base_reference) ==
    [title |-> <<base_reference, base_row.DESCRIPCION>>,
     sku |-> base_reference,
     price |-> SalePrice(base_row.PRECIO),
     stock |-> base_row.STOCK]

-----------------------------------------------------------------------------
(* What a run does, in order: each remote call, store call, pause and log  *)
(* line is one event.                                                      *)

Event(call, key, ok) == [call |-> call, key |-> key, ok |-> ok]

Does(events) == trace' = trace \o events

InitTrace == trace = <<>>

-----------------------------------------------------------------------------
(* The creation flow of main.py against the remote platform *)

SameTitle(title) == {k \in 1..Len(remote) : remote[k].title = title}

\* The product the platform returns from new_product.save(): fresh ids, one
\* variant per payload (one default variant for a simple product).
SavedProduct(kind, pd, vds) ==
    LET pid == Len(remote) + 1
        n == IF kind = "simple" THEN 1 ELSE Len(vds)
    IN  [id |-> pid,
         handle |-> <<pd.title, Cardinality(SameTitle(pd.title))>>,
         title |-> pd.title,
         sku |-> pd.sku,
         variants |-> [k \in 1..n |->
                          [id |-> 10 * pid + k, product_id |-> pid,
                           price |-> IF kind = "simple" THEN pd.price ELSE vds[k].price,
                           inventory_item_id |-> 100 * pid + k]],
         levels |-> {}]

Begin(kind, caller, pd, vds) ==
    /\ cur' = [kind |-> kind, caller |-> caller, product_data |-> pd, variants_data |-> vds,
               new_product |-> <<>>, i |-> 0, result |-> FALSE]
    /\ pc' = "save"

\* The failure not escalated: the function returns True all the same.
FailReturnsTrue ==
    /\ cur' = [cur EXCEPT !.result = TRUE]
    /\ pc' = "return"

\* The failure passed over: the function goes on to its metafields and images.
FailGoesOn ==
    /\ cur' = cur
    /\ pc' = "extras"

\* The failed call is made again.
FailRetried ==
    /\ cur' = cur
    /\ pc' = pc

\* raise Exception(...) / a raising call, caught at the end of create_*_product:
\* return False
Fail == /\ cur' = [cur EXCEPT !.result = FALSE]
        /\ pc' = "return"

\* new_product.save() at main.py 174 / 256
FlowSave ==
    \E saveOk \in BOOLEAN :
        /\ pc = "save"
        /\ faults + (IF saveOk THEN 0 ELSE 1) <= MaxFaults
        /\ faults' = faults + (IF saveOk THEN 0 ELSE 1)
        /\ IF saveOk
           THEN LET np == SavedProduct(cur.kind, cur.product_data, cur.variants_data)
                IN  /\ remote' = Append(remote, np)
                    /\ cur' = [cur EXCEPT !.new_product = np]
                    /\ pc' = "map_product"
           ELSE /\ Fail
                /\ remote' = remote
        /\ Does(<<Event("Product.save", cur.product_data.sku, saveOk)>>)
        /\ UNCHANGED <<storeVars, ops, runVars, refVars, updVars, mainVars>>

\* Where create_*_product goes after the product mapping was saved.
AfterProductMapping ==
    IF cur.kind = "simple" THEN "inventory"
    ELSE IF Len(cur.variants_data) > 0 THEN "map_variant" ELSE "extras"

\* product_mapper.save_product_mapping(...) at main.py 176-182 / 258-264
FlowMapProduct ==
    \E stmtOk \in BOOLEAN, logOk \in BOOLEAN :
        /\ pc = "map_product"
        /\ save_product_mapping(cur.product_data.sku, cur.new_product, stmtOk, logOk)
        /\ IF last'.ret
           THEN /\ cur' = [cur EXCEPT !.i = 1]
                /\ pc' = AfterProductMapping
           ELSE Fail
        /\ Does(<<Event("save_product_mapping", cur.product_data.sku, last'.ret)>>)
        /\ UNCHANGED <<remote, ops, runVars, refVars, updVars, mainVars>>

\* product_mapper.save_variant_mapping(...) at main.py 269-278
FlowMapVariant ==
    \E stmtOk \in BOOLEAN, logOk \in BOOLEAN :
        /\ pc = "map_variant"
        /\ LET vd == cur.variants_data[cur.i]
           IN  save_variant_mapping(vd.sku, cur.new_product.variants[cur.i],
                                    cur.product_data.sku, vd.size, vd.price, stmtOk, logOk)
        /\ IF last'.ret
           THEN /\ cur' = cur
                /\ pc' = "inventory"
           ELSE Fail
        /\ Does(<<Event("save_variant_mapping", cur.variants_data[cur.i].sku, last'.ret)>>)
        /\ UNCHANGED <<remote, ops, runVars, refVars, updVars, mainVars>>

\* shopify.InventoryLevel.set(...) at main.py 185-189 / 281-285
FlowInventory ==
    \E setOk \in BOOLEAN :
        /\ pc = "inventory"
        /\ faults + (IF setOk THEN 0 ELSE 1) <= MaxFaults
        /\ faults' = faults + (IF setOk THEN 0 ELSE 1)
        /\ IF setOk
           THEN /\ remote' = [remote EXCEPT ![cur.new_product.id].levels =
                                 @ \cup {cur.new_product.variants[cur.i].inventory_item_id}]
                /\ IF cur.kind = "variant" /\ cur.i < Len(cur.variants_data)
                   THEN /\ cur' = [cur EXCEPT !.i = @ + 1]
                        /\ pc' = "map_variant"
                   ELSE /\ cur' = cur
                        /\ pc' = "extras"
           ELSE /\ Fail
                /\ remote' = remote
        /\ Does(<<Event("InventoryLevel.set",
                        IF cur.kind = "simple" THEN cur.product_data.sku
                        ELSE cur.variants_data[cur.i].sku,
                        setOk)>>)
        /\ UNCHANGED <<storeVars, ops, runVars, refVars, updVars, mainVars>>

\* create_product_metafields and setup_product_images save nothing for a row
\* without GENERO, CIERRE, COLOR ORO and IMAGEN cells and swallow their errors;
\* the function then returns True (main.py 191-200 / 287-296)
FlowExtras ==
    /\ pc = "extras"
    /\ cur' = [cur EXCEPT !.result = TRUE]
    /\ pc' = "return"
    /\ Does(<<Event("create_product_metafields", cur.product_data.sku, TRUE)>>)
    /\ UNCHANGED <<storeVars, ops, faults, remote, runVars, refVars, updVars, mainVars>>

\* create_variant_product returns to a direct caller
FlowReturnToClient ==
    /\ pc = "return" /\ cur.caller = "client"
    /\ pc' = "idle"
    /\ UNCHANGED <<storeVars, ops, faults, remote, cur, runVars, refVars, trace, updVars, mainVars>>

-----------------------------------------------------------------------------
(* process_products *)

\* process_products up to the loop: get_location_id (not in display mode; when
\* it raises the run ends there), group_variants
process_products(frame, mode, locationOk) ==
    /\ pc = "idle" /\ runs < MaxRuns
    /\ mode => locationOk
    /\ faults + (IF locationOk THEN 0 ELSE 1) <= MaxFaults
    /\ faults' = faults + (IF locationOk THEN 0 ELSE 1)
    /\ runs' = runs + 1
    /\ display_mode' = mode
    /\ df' = frame
    /\ tally' = [processed |-> 0, failed |-> 0]
    /\ trace' = IF mode THEN <<>> ELSE <<Event("Location.find", <<>>, locationOk)>>
    /\ IF locationOk
       THEN /\ grouped' = group_variants(frame)
            /\ idx' = 1
            /\ pc' = "loop"
       ELSE UNCHANGED <<grouped, idx, pc>>
    /\ UNCHANGED <<storeVars, ops, remote, cur, refVars, updVars>>

\* process_products called on the rows at hand, in either mode
StartRun ==
    \E mode \in BOOLEAN, locationOk \in BOOLEAN :
        /\ process_products(df, mode, locationOk)
        /\ UNCHANGED mainVars

CountFailedTwice == [tally EXCEPT !.failed = @ + 2]

CountFailed == [tally EXCEPT !.failed = @ + 1]
CountProcessed == [tally EXCEPT !.processed = @ + 1]

\* One iteration of the loop up to the call of create_*_product (main.py 422-452)
LoopRecord ==
    /\ pc = "loop" /\ idx <= Len(grouped)
    /\ LET info == grouped[idx]
           base_row == info.base_data
       IN  IF \/ ~ validate_product_data(base_row)
              \/ PrepareRaises(base_row)
              \/ ~ display_mode /\ info.is_variant_product
                    /\ PrepareVariantsRaises(info.variants)
           THEN /\ tally' = CountFailed
                /\ idx' = idx + 1
                /\ Does(<<Event("Procesando", info.key, TRUE),
                          Event("products_failed", info.key, TRUE)>>)
                /\ UNCHANGED <<pc, cur>>
           ELSE IF display_mode
           THEN /\ idx' = idx + 1
                /\ Does(<<Event("Procesando", info.key, TRUE)>>)
                /\ UNCHANGED <<pc, cur, tally>>
           ELSE /\ Does(<<Event("Procesando", info.key, TRUE)>>)
                /\ IF info.is_variant_product
                   THEN Begin("variant", "loop",
                              prepare_product_data(base_row, info.key),
                              prepare_variants_data(info.variants))
                   ELSE Begin("simple", "loop",
                              prepare_product_data(base_row, info.key), <<>>)
                /\ UNCHANGED <<idx, tally>>
    /\ UNCHANGED <<storeVars, ops, faults, remote, df, grouped, runs, display_mode, refVars, updVars, mainVars>>

\* create_*_product returned: count the record, pause, next record (main.py 443-456)
LoopReturn ==
    /\ pc = "return" /\ cur.caller = "loop"
    /\ tally' = IF cur.result THEN CountProcessed ELSE CountFailed
    /\ Does(<<Event(IF cur.result THEN "products_processed" ELSE "products_failed",
                    cur.product_data.sku, TRUE),
              Event("sleep", <<>>, TRUE)>>)
    /\ idx' = idx + 1
    /\ pc' = "loop"
    /\ UNCHANGED <<storeVars, ops, faults, remote, cur, df, grouped, runs, display_mode, refVars, updVars, mainVars>>

\* The loop is over: log_processing_stats, product_mapper.close()
EndRun ==
    /\ pc = "loop" /\ idx > Len(grouped)
    /\ pc' = "idle"
    /\ Does(<<Event("log_processing_stats", <<>>, TRUE)>>)
    /\ UNCHANGED <<storeVars, ops, faults, remote, cur, df, grouped, idx, tally, runs,
                   display_mode, refVars, updVars, mainVars>>

-----------------------------------------------------------------------------
(* The update flow (update-new.py): its input rows, analyze_references and *)
(* process_csv_updates.                                                    *)

Digits == {"0", "1", "7"}

REF7 == <<"7">>

\* str.isdigit()
isdigit(s) == s # <<>> /\ \A i \in 1..Len(s) : s[i] \in Digits

\* str.zfill(width)
RECURSIVE zfill(_, _)
zfill(s, width) == IF Len(s) >= width THEN s ELSE zfill(<<"0">> \o s, width)

\* The code point of a character
Code(c) ==
    CASE c = Space -> 32 [] c = Slash -> 47 [] c = "0" -> 48 [] c = "1" -> 49 [] c = "7" -> 55
      [] c = "A" -> 65 [] c = "B" -> 66 [] c = "C" -> 67 [] c = "M" -> 77
      [] c = "S" -> 83 [] c = "X" -> 88 [] c = "Y" -> 89 [] c = "Z" -> 90

\* a < b for str
RECURSIVE Less(_, _)
Less(a, b) ==
    IF b = <<>> THEN FALSE
    ELSE IF a = <<>> THEN TRUE
    ELSE IF Head(a) = Head(b) THEN Less(Tail(a), Tail(b))
    ELSE Code(Head(a)) < Code(Head(b))

\* A row of the update CSV; na is the set of columns whose cell is NaN, TagsType
\* the type pandas gave the Tags cell.
UpdateRow(sku, title, tagsType, nacols) ==
    [Variant_SKU |-> sku, Title |-> title, TagsType |-> tagsType, na |-> nacols]

UpdABC == UpdateRow(ABC, <<ABC, "Nuevo">>, "str", {})
UpdXYZ == UpdateRow(XYZ, <<XYZ, "Nuevo">>, "str", {})
UpdXYZ_again == UpdateRow(XYZ, <<XYZ, "Otro">>, "str", {})
UpdABC_numeric_tags == UpdateRow(ABC, <<ABC, "Nuevo">>, "int", {})
UpdXYZ_numeric_tags == UpdateRow(XYZ, <<XYZ, "Nuevo">>, "int", {})
UpdXYZ_no_tags == UpdateRow(XYZ, <<XYZ, "Nuevo">>, "str", {"Tags"})
Upd7 == UpdateRow(REF7, <<REF7, "Nuevo">>, "str", {})
UpdNoSku == UpdateRow(<<>>, <<XYZ, "Nuevo">>, "str", {"Variant SKU"})

\* The update CSVs of the model: one row, two references, a reference twice, a
\* Tags column read as numbers (pandas gives a column one type: its cells are
\* numbers only when none of them is text), an empty Tags cell and a missing SKU,
\* a numeric SKU.
UpdateFrames ==
    {<<UpdXYZ>>,
     <<UpdABC, UpdXYZ>>,
     <<UpdXYZ, UpdXYZ_again>>,
     <<UpdXYZ_numeric_tags, UpdABC_numeric_tags>>,
     <<UpdXYZ_no_tags, UpdNoSku>>,
     <<Upd7, UpdXYZ>>}

\* analyze_references 151-157: the key a row is grouped under
NormaliseReference(ref) == IF isdigit(ref) THEN zfill(ref, 4) ELSE strip(ref)

\* get_product_by_reference 205-206: the key the mapping is looked up under
LookupReference(ref) == IF isdigit(ref) THEN zfill(ref, 4) ELSE ref

HasReference(info, key) == \E i \in 1..Len(info) : info[i].key = key

\* The loop body with the latest row of a reference kept as first_occurrence.
AnalyzeRowLastWins(acc, row, n) ==
    IF "Variant SKU" \in row.na \/ row.Variant_SKU = <<>> THEN acc
    ELSE LET key == NormaliseReference(row.Variant_SKU)
         IN  IF ~ HasReference(acc.info, key)
             THEN [acc EXCEPT !.info = Append(@, [key |-> key, count |-> 1,
                                                   first_occurrence |-> row,
                                                   row_numbers |-> <<n>>])]
             ELSE [info |-> [i \in 1..Len(acc.info) |->
                                IF acc.info[i].key = key
                                THEN [acc.info[i] EXCEPT !.count = @ + 1,
                                                         !.first_occurrence = row,
                                                         !.row_numbers = Append(@, n)]
                                ELSE acc.info[i]],
                   duplicated_rows |-> Append(acc.duplicated_rows,
                                              [reference |-> key, row_number |-> n,
                                               title |-> row.Title])]

\* analyze_references: the body of the loop for the row at position n
AnalyzeRow(acc, row, n) ==
    IF "Variant SKU" \in row.na \/ row.Variant_SKU = <<>> THEN acc
    ELSE LET key == NormaliseReference(row.Variant_SKU)
         IN  IF ~ HasReference(acc.info, key)
             THEN [acc EXCEPT !.info = Append(@, [key |-> key, count |-> 1,
                                                   first_occurrence |-> row,
                                                   row_numbers |-> <<n>>])]
             ELSE [info |-> [i \in 1..Len(acc.info) |->
                                IF acc.info[i].key = key
                                THEN [acc.info[i] EXCEPT !.count = @ + 1,
                                                         !.row_numbers = Append(@, n)]
                                ELSE acc.info[i]],
                   duplicated_rows |-> Append(acc.duplicated_rows,
                                              [reference |-> key, row_number |-> n,
                                               title |-> row.Title])]

RECURSIVE AnalyzeFrom(_, _, _)
AnalyzeFrom(acc, rows, i) ==
    IF i > Len(rows) THEN acc ELSE AnalyzeFrom(AnalyzeRow(acc, rows[i], i), rows, i + 1)

\* sorted(reference_info.items()): by key
RECURSIVE SortedByKey(_)
SortedByKey(info) ==
    IF info = <<>> THEN <<>>
    ELSE LET least == CHOOSE i \in 1..Len(info) :
                          \A j \in 1..Len(info) : j # i => Less(info[i].key, info[j].key)
         IN  <<info[least]>>
                \o SortedByKey([k \in 1..(Len(info) - 1) |->
                                   IF k < least THEN info[k] ELSE info[k + 1]])

\* analyze_references: (reference_info sorted by key, duplicated_rows)
analyze_references(rows) ==
    LET acc == AnalyzeFrom([info |-> <<>>, duplicated_rows |-> <<>>], rows, 1)
    IN  [info |-> SortedByKey(acc.info), duplicated_rows |-> acc.duplicated_rows]

\* normalize_tags raises on a Tags cell that is neither NaN nor text
NormalizeTagsRaises(row) == "Tags" \notin row.na /\ row.TagsType # "str"

\* process_csv_updates up to its loop (update-new.py 467-480)
StartUpdate ==
    \E demo \in BOOLEAN :
        /\ pc = "idle" /\ runs < MaxRuns
        /\ runs' = runs + 1
        /\ upd' = [NoUpdate EXCEPT !.info = analyze_references(csv).info,
                                   !.duplicated_rows = analyze_references(csv).duplicated_rows,
                                   !.idx = 1, !.demo_mode = demo]
        /\ trace' = <<>>
        /\ pc' = "u_loop"
        /\ UNCHANGED <<storeVars, ops, faults, remote, cur, df, grouped, idx, tally,
                       display_mode, refVars, csv, mainVars>>

\* get_product_by_reference: the remote product of the mapping, or None
RemoteProduct(mapping, getOk) ==
    IF mapping.found /\ getOk /\ mapping.product.shopify_product_id \in 1..Len(remote)
    THEN [found |-> TRUE, product |-> remote[mapping.product.shopify_product_id]]
    ELSE NotFound

DemoUpdates(demo_mode) == FALSE

\* "if demo_mode: ... continue" (update-new.py 510-515): a demo run shows the
\* product and goes to the next record
DemoContinues(demo_mode) == demo_mode

\* One iteration of the loop up to the call of update_product_with_metafields
\* (update-new.py 482-515); an exception of the body ends the run at line 552.
UpdateRecord ==
    \E readOk \in BOOLEAN, getOk \in BOOLEAN :
        /\ pc = "u_loop" /\ upd.idx <= Len(upd.info)
        /\ LET entry == upd.info[upd.idx]
               raises == NormalizeTagsRaises(entry.first_occurrence)
               key == LookupReference(entry.key)
               mapping == get_product_mapping(product_mappings, variant_mappings, key, readOk)
               current == RemoteProduct(mapping, getOk)
               cost == IF ~ raises /\ (~ readOk \/ (mapping.found /\ ~ getOk)) THEN 1 ELSE 0
               lookup == <<Event("get_product_mapping", key, mapping.found)>>
                            \o (IF mapping.found
                                THEN <<Event("requests.get", key, current.found)>>
                                ELSE <<>>)
           IN  /\ raises => (readOk /\ getOk)
               /\ ~ mapping.found => getOk
               /\ faults + cost <= MaxFaults
               /\ faults' = faults + cost
               /\ IF raises
                  THEN /\ Does(<<Event("Error procesando actualizaciones", entry.key, FALSE)>>)
                       /\ pc' = "idle"
                       /\ upd' = upd
                  ELSE IF ~ current.found /\ ~ upd.demo_mode
                  THEN /\ Does(lookup)
                       /\ upd' = [upd EXCEPT !.total_errors = @ + 1, !.idx = @ + 1,
                                             !.current_product = NotFound]
                       /\ pc' = pc
                  ELSE IF DemoContinues(upd.demo_mode)
                  THEN /\ Does(lookup \o (IF current.found
                                          THEN <<Event("get_product_mapping", entry.key,
                                                       HasProduct(product_mappings, entry.key))>>
                                          ELSE <<>>))
                       /\ upd' = [upd EXCEPT !.total_processed = @ + 1, !.idx = @ + 1,
                                             !.current_product = current]
                       /\ pc' = pc
                  ELSE IF current.found
                  THEN /\ Does(lookup)
                       /\ upd' = [upd EXCEPT !.total_processed = @ + 1,
                                             !.current_product = current]
                       /\ pc' = "u_update"
                  ELSE /\ Does(lookup)
                       /\ upd' = [upd EXCEPT !.total_processed = @ + 1, !.idx = @ + 1,
                                             !.current_product = NotFound]
                       /\ pc' = pc
        /\ UNCHANGED <<storeVars, ops, remote, cur, runVars, refVars, csv, mainVars>>

LoggedAlways(answer, key) == TRUE

\* Whether update_product_with_metafields calls _log_sync: after a 200 for a
\* truthy internal_reference (292-299), and in its except branch (304-311); a
\* PUT answered with another status returns before any logging (287-290)
Logged(answer, key) == (answer = "200" /\ key # <<>>) \/ answer = "raises"

\* update_product_with_metafields and the counting of its result (update-new.py
\* 249-312, 531-540): requests.put answers 200, answers another status, or raises.
\* The call is reached with demo_mode false only (line 510 continues before it),
\* so the early return of line 255 is never taken.
UpdateProduct ==
    \E answer \in {"200", "status", "raises"}, logOk \in BOOLEAN :
        /\ pc = "u_update"
        /\ LET entry == upd.info[upd.idx]
               id == upd.current_product.product.id
               logged == Logged(answer, entry.key)
               cost == IF answer # "200" \/ (logged /\ ~ logOk) THEN 1 ELSE 0
           IN  /\ ~ logged => logOk
               /\ faults + cost <= MaxFaults
               /\ faults' = faults + cost
               /\ remote' = IF answer = "200"
                            THEN [remote EXCEPT ![id].title = entry.first_occurrence.Title]
                            ELSE remote
               /\ sync_log' = IF logged
                              THEN LogSync(sync_log, entry.key, "update_product",
                                           answer = "200", logOk)
                              ELSE sync_log
               /\ Does(<<Event("requests.put", entry.key, answer = "200")>>
                         \o (CASE answer = "200" -> <<>>
                               [] answer = "status" ->
                                     <<Event("Error actualizando producto", entry.key, FALSE)>>
                               [] answer = "raises" ->
                                     <<Event("Error en update_product_with_metafields",
                                             entry.key, FALSE)>>)
                         \o (IF logged THEN <<Event("_log_sync", entry.key, logOk)>> ELSE <<>>))
               /\ upd' = [upd EXCEPT !.idx = @ + 1,
                                     !.total_success = IF answer = "200" THEN @ + 1 ELSE @,
                                     !.total_errors = IF answer = "200" THEN @ ELSE @ + 1]
        /\ pc' = "u_loop"
        /\ UNCHANGED <<product_mappings, variant_mappings, last, ops, cur, runVars, refVars,
                       csv, mainVars>>

\* The loop is over: the summary is printed (update-new.py 542-550)
EndUpdate ==
    /\ pc = "u_loop" /\ upd.idx > Len(upd.info)
    /\ upd' = [upd EXCEPT !.summary = TRUE]
    /\ Does(<<Event("RESUMEN DE ACTUALIZACION", <<>>, TRUE)>>)
    /\ pc' = "idle"
    /\ UNCHANGED <<storeVars, ops, faults, remote, cur, runVars, refVars, csv, mainVars>>

-----------------------------------------------------------------------------
(* Spec: the store under arbitrary client calls, create_variant_product    *)
(* among them.                                                             *)

CallSaveProductMapping ==
    \E ref \in StoreRefs, p \in ShopifyProducts, stmtOk \in BOOLEAN, logOk \in BOOLEAN :
        /\ pc = "idle" /\ ops < MaxOps
        /\ ops' = ops + 1
        /\ save_product_mapping(ref, p, stmtOk, logOk)
        /\ UNCHANGED <<flowVars, runVars, refVars, trace, updVars, mainVars>>

CallSaveVariantMapping ==
    \E sku \in StoreSkus, a \in VariantArgs, parent \in StoreRefs,
       stmtOk \in BOOLEAN, logOk \in BOOLEAN :
        /\ pc = "idle" /\ ops < MaxOps
        /\ ops' = ops + 1
        /\ save_variant_mapping(sku, a[1], parent, a[2], a[3], stmtOk, logOk)
        /\ UNCHANGED <<flowVars, runVars, refVars, trace, updVars, mainVars>>

CallDeleteProductMapping ==
    \E ref \in StoreRefs, stmtOk \in BOOLEAN, logOk \in BOOLEAN :
        /\ pc = "idle" /\ ops < MaxOps
        /\ ops' = ops + 1
        /\ delete_product_mapping(ref, stmtOk, logOk)
        /\ UNCHANGED <<flowVars, runVars, refVars, trace, updVars, mainVars>>

CallCreateVariantProduct ==
    \E rows \in {<<RowABC_S>>, <<RowABC_S, RowABC_M>>} :
        /\ pc = "idle" /\ ops < MaxOps
        /\ ops' = ops + 1
        /\ Begin("variant", "client", prepare_product_data(rows[1], ABC),
                 prepare_variants_data(rows))
        /\ trace' = <<>>
        /\ UNCHANGED <<storeVars, faults, remote, runVars, refVars, updVars, mainVars>>

Init == InitStore /\ InitFlow /\ InitRun /\ InitRef /\ InitTrace /\ InitUpd /\ InitMain

Next ==
    \/ CallSaveProductMapping
    \/ CallSaveVariantMapping
    \/ CallDeleteProductMapping
    \/ CallCreateVariantProduct
    \/ FlowSave
    \/ FlowMapProduct
    \/ FlowMapVariant
    \/ FlowInventory
    \/ FlowExtras
    \/ FlowReturnToClient

Spec == Init /\ [][Next]_vars

-----------------------------------------------------------------------------
(* SpecSync: repeated runs of process_products over one input *)

InitSync ==
    /\ InitStore /\ InitFlow /\ InitRef /\ InitTrace /\ InitUpd /\ InitMain
    /\ df \in DataFrames \cup InvalidFrames
    /\ grouped = <<>>
    /\ idx = 0
    /\ tally = [processed |-> 0, failed |-> 0]
    /\ runs = 0
    /\ display_mode = FALSE

NextSync ==
    \/ StartRun
    \/ LoopRecord
    \/ FlowSave
    \/ FlowMapProduct
    \/ FlowMapVariant
    \/ FlowInventory
    \/ FlowExtras
    \/ LoopReturn
    \/ EndRun

SpecSync == InitSync /\ [][NextSync]_vars

-----------------------------------------------------------------------------
(* SpecUpdate: runs of process_products and of process_csv_updates over    *)
(* the same store, in any order, and delete_product_mapping between them.  *)

CreateFrames == {<<RowXYZ>>, <<RowABC_S, RowXYZ>>}

\* delete_product_mapping of a mapped reference, called between two runs
DeleteMapped ==
    \E ref \in StoreRefs, stmtOk \in BOOLEAN, logOk \in BOOLEAN :
        /\ pc = "idle" /\ ops < MaxDeletes
        /\ HasProduct(product_mappings, ref)
        /\ ops' = ops + 1
        /\ delete_product_mapping(ref, stmtOk, logOk)
        /\ UNCHANGED <<flowVars, runVars, refVars, trace, updVars, mainVars>>

InitUpdate ==
    /\ InitStore /\ InitFlow /\ InitRef /\ InitTrace /\ InitMain
    /\ df \in CreateFrames
    /\ csv \in UpdateFrames
    /\ upd = NoUpdate
    /\ grouped = <<>>
    /\ idx = 0
    /\ tally = [processed |-> 0, failed |-> 0]
    /\ runs = 0
    /\ display_mode = FALSE

NextUpdate ==
    \/ StartRun
    \/ LoopRecord
    \/ FlowSave
    \/ FlowMapProduct
    \/ FlowMapVariant
    \/ FlowInventory
    \/ FlowExtras
    \/ LoopReturn
    \/ EndRun
    \/ StartUpdate
    \/ UpdateRecord
    \/ UpdateProduct
    \/ EndUpdate
    \/ DeleteMapped

SpecUpdate == InitUpdate /\ [][NextUpdate]_vars

-----------------------------------------------------------------------------
(* SpecRef: the reference resolver applied to every short text *)

Alphabet == {"A", "S", Slash}

Texts == SeqsUpTo(Alphabet, MaxLen)

InitResolver ==
    /\ InitStore /\ InitFlow /\ InitRun /\ InitTrace /\ InitUpd /\ InitMain
    /\ reference \in Texts
    /\ resolved = Unresolved

Resolve ==
    /\ ~ resolved.done
    /\ resolved' = [done |-> TRUE,
                    is_variant |-> is_variant_reference(reference),
                    base |-> get_base_reference(reference),
                    size |-> get_variant_size(reference)]
    /\ UNCHANGED <<storeVars, ops, faults, flowVars, runVars, reference, trace, updVars, mainVars>>

NextRef == Resolve

SpecRef == InitResolver /\ [][NextRef]_vars

-----------------------------------------------------------------------------
(* SpecGroup: group_variants row by row, then prepare_variants_data on     *)
(* each bucket                                                             *)

InitGroup ==
    /\ InitStore /\ InitRef /\ InitTrace /\ InitUpd /\ InitMain
    /\ remote = <<>>
    /\ cur = NoRecord
    /\ pc = "grouping"
    /\ df \in DataFrames
    /\ grouped = <<>>
    /\ idx = 1
    /\ tally = [processed |-> 0, failed |-> 0]
    /\ runs = 0
    /\ display_mode = FALSE

\* one iteration of the loop of group_variants
GroupStep ==
    /\ pc = "grouping" /\ idx <= Len(df)
    /\ grouped' = GroupRow(grouped, df[idx])
    /\ idx' = idx + 1
    /\ UNCHANGED <<storeVars, ops, faults, flowVars, df, tally, runs, display_mode, refVars,
                   trace, updVars, mainVars>>

\* return products
GroupReturn ==
    /\ pc = "grouping" /\ idx > Len(df)
    /\ pc' = "grouped"
    /\ idx' = 1
    /\ UNCHANGED <<storeVars, ops, faults, remote, cur, df, grouped, tally, runs,
                   display_mode, refVars, trace, updVars, mainVars>>

\* prepare_variants_data(product_info['variants']) for the next bucket
PrepareStep ==
    /\ pc = "grouped" /\ idx <= Len(grouped)
    /\ cur' = [NoRecord EXCEPT !.kind = "prepared", !.i = idx,
                               !.variants_data = prepare_variants_data(grouped[idx].variants)]
    /\ idx' = idx + 1
    /\ UNCHANGED <<storeVars, ops, faults, remote, pc, df, grouped, tally, runs,
                   display_mode, refVars, trace, updVars, mainVars>>

NextGroup == GroupStep \/ GroupReturn \/ PrepareStep

SpecGroup == InitGroup /\ [][NextGroup]_vars

-----------------------------------------------------------------------------
(* Properties *)

\* C1 (as claimed): over repeated api-mode runs of process_products on the same
\* rows, no remote product is created for a reference that already has a product
\* mapping: whenever new_product.save() has just created one, its reference had none.
C1_NoDuplicateRemoteProduct ==
    pc = "map_product" => ~ HasProduct(product_mappings, cur.product_data.sku)

\* The columns a successful save_product_mapping(ref, p) leaves in the row of ref
ProductWritten(row, p) ==
    /\ row.shopify_product_id = p.id
    /\ row.shopify_handle = p.handle
    /\ row.title = p.title

\* The columns a successful save_variant_mapping(sku, v, parent, size, price)
\* leaves in the row of sku
VariantWritten(row, v, size, price) ==
    /\ row.shopify_variant_id = v.id
    /\ row.shopify_product_id = v.product_id
    /\ row.size = size
    /\ row.price = PriceArg(v, price)

\* The call in last repeats a successful call with the same arguments: the
\* table before it holds one row of the key, with the columns those arguments write.
RepeatedProductSave ==
    /\ last.op = "save_product_mapping"
    /\ Len(ProductRows(last.pm, last.key)) = 1
    /\ ProductWritten(ProductRows(last.pm, last.key)[1], last.args[1])

RepeatedVariantSave ==
    /\ last.op = "save_variant_mapping"
    /\ Len(VariantRows(last.vm, last.key)) = 1
    /\ VariantWritten(VariantRows(last.vm, last.key)[1], last.args[1], last.args[3], last.args[4])

\* C2: a second save_product_mapping (save_variant_mapping) with the arguments of
\* a successful first one leaves exactly one row of that key, holding what it held
\* after the first call.
C2_UpsertIdempotent ==
    /\ RepeatedProductSave =>
          /\ Len(ProductRows(product_mappings, last.key)) = 1
          /\ ProductRows(product_mappings, last.key) = ProductRows(last.pm, last.key)
    /\ RepeatedVariantSave =>
          /\ Len(VariantRows(variant_mappings, last.key)) = 1
          /\ VariantRows(variant_mappings, last.key) = VariantRows(last.vm, last.key)

\* Two consecutive successful save_product_mapping calls with the same arguments,
\* as the log shows them.
C2_Witness ==
    /\ RepeatedProductSave /\ last.ret
    /\ Len(sync_log) >= 2
    /\ last.nlog = Len(sync_log) - 1
    /\ sync_log[Len(sync_log)] = LogEntry(last.key, "create_product", TRUE)
    /\ sync_log[Len(sync_log) - 1] = LogEntry(last.key, "create_product", TRUE)

\* C3: after a successful save_product_mapping(ref, p), get_product_mapping(ref)
\* returns one product, with the remote id of p, whatever id the row held before.
C3_LastWriteWins ==
    (last.op = "save_product_mapping" /\ last.ret) =>
        LET got == get_product_mapping(product_mappings, variant_mappings, last.key, TRUE)
        IN  /\ got.found
            /\ got.product.shopify_product_id = last.args[1].id
            /\ Len(ProductRows(product_mappings, last.key)) = 1

\* The row of ref held another remote id before the second save.
C3_Witness ==
    /\ last.op = "save_product_mapping" /\ last.ret
    /\ ProductRows(last.pm, last.key) # <<>>
    /\ ProductRows(last.pm, last.key)[1].shopify_product_id # last.args[1].id

\* C4: after a successful delete_product_mapping(ref) no variant row has
\* parent_reference = ref, and get_variant_mapping finds none of the SKUs that
\* had it before the delete.
C4_DeleteCascades ==
    (last.op = "delete_product_mapping" /\ last.ret) =>
        /\ ChildRows(variant_mappings, last.key) = <<>>
        /\ ~ HasProduct(product_mappings, last.key)
        /\ \A i \in 1..Len(last.vm) :
              last.vm[i].parent_reference = last.key =>
                  ~ get_variant_mapping(variant_mappings, last.vm[i].internal_sku, TRUE).found

\* A delete that had variants to remove.
C4_Witness ==
    /\ last.op = "delete_product_mapping" /\ last.ret
    /\ ChildRows(last.vm, last.key) # <<>>

\* C5: every variant row's parent_reference is the internal_reference of a product
\* row; create_variant_product reaches its variant mappings only after its product
\* mapping was written; an insert of a variant whose parent is missing is rejected.
C5_ParentExists ==
    /\ \A i \in 1..Len(variant_mappings) :
          HasProduct(product_mappings, variant_mappings[i].parent_reference)
    /\ pc = "map_variant" => HasProduct(product_mappings, cur.product_data.sku)
    /\ (pc = "map_variant" /\ cur.i = 1) =>
          (last.op = "save_product_mapping" /\ last.ret /\ last.key = cur.product_data.sku)
    /\ (last.op = "save_variant_mapping" /\ ~ HasVariant(last.vm, last.key)
          /\ ~ HasProduct(last.pm, last.args[2])) =>
          (~ last.ret /\ variant_mappings = last.vm)

\* create_variant_product has written a variant mapping under its product mapping.
C5_Witness ==
    /\ pc = "inventory" /\ cur.kind = "variant"
    /\ last.op = "save_variant_mapping" /\ last.ret
    /\ HasVariant(variant_mappings, last.key)
    /\ ~ HasVariant(last.vm, last.key)

\* C6 (as claimed): for a reference containing '/', get_base_reference is the text
\* before the first '/', get_variant_size the text after it, and base + '/' + size
\* is the reference.
C6_SplitOnFirstSlash ==
    (resolved.done /\ is_variant_reference(reference)) =>
        LET i == FirstSlash(reference)
        IN  /\ resolved.base = SubSeq(reference, 1, i - 1)
            /\ resolved.size = SubSeq(reference, i + 1, Len(reference))
            /\ Join(resolved.base, resolved.size) = reference

Permute(rows, f) == [i \in 1..Len(rows) |-> rows[f[i]]]

Count(rows, x) == Cardinality({i \in 1..Len(rows) : rows[i] = x})

SameCollection(a, b) ==
    /\ Len(a) = Len(b)
    /\ \A i \in 1..Len(a) : Count(a, a[i]) = Count(b, a[i])

Keys(products) == {products[i].key : i \in 1..Len(products)}

Bucket(products, key) == products[CHOOSE i \in 1..Len(products) : products[i].key = key]

\* C7 (as claimed): every permutation of the rows groups to the same keys, the
\* same is_variant_product per key and the same collection of variant rows per key.
C7_GroupingOrderIndependent ==
    pc = "grouped" =>
        \A f \in Permutations(1..Len(df)) :
            LET other == group_variants(Permute(df, f))
            IN  /\ Keys(other) = Keys(grouped)
                /\ \A key \in Keys(grouped) :
                      /\ Bucket(other, key).is_variant_product
                            = Bucket(grouped, key).is_variant_product
                      /\ SameCollection(Bucket(other, key).variants,
                                        Bucket(grouped, key).variants)

\* The rows are ABC/S then ABC/M.
ScenarioABC ==
    /\ Len(df) = 2
    /\ RowReference(df[1]) = Join(ABC, S)
    /\ RowReference(df[2]) = Join(ABC, M)

\* C8: rows ABC/S then ABC/M group into the one bucket ABC, a variant product, and
\* prepare_variants_data on it yields two variants, sized S and M, with SKUs ABC/S
\* and ABC/M.
C8_ScenarioVariantProduct ==
    /\ (ScenarioABC /\ pc = "grouped") =>
          /\ Len(grouped) = 1
          /\ grouped[1].key = ABC
          /\ grouped[1].is_variant_product
    /\ (ScenarioABC /\ cur.kind = "prepared") =>
          /\ Len(cur.variants_data) = 2
          /\ cur.variants_data[1].size = S /\ cur.variants_data[1].sku = Join(ABC, S)
          /\ cur.variants_data[2].size = M /\ cur.variants_data[2].sku = Join(ABC, M)

C8_Witness == ScenarioABC /\ cur.kind = "prepared" /\ cur.i = 1

\* The input is one row, whose reference is XYZ.
ScenarioXYZ == Len(df) = 1 /\ df[1].REFERENCIA = XYZ

\* C9 (as claimed): the row XYZ groups into one bucket XYZ, not a variant product,
\* with zero variants, and processing it writes no variant mapping.
C9_ScenarioSimpleNoVariants ==
    ScenarioXYZ =>
        /\ variant_mappings = <<>>
        /\ pc # "idle" =>
              /\ Len(grouped) = 1
              /\ grouped[1].key = XYZ
              /\ ~ grouped[1].is_variant_product
              /\ Len(grouped[1].variants) = 0

\* C9 (amended): the row XYZ groups into one bucket XYZ, not a variant product,
\* whose variants list holds that row alone; it has no variant payload, and
\* processing it writes no variant mapping.
C9_ScenarioSimple ==
    ScenarioXYZ =>
        /\ variant_mappings = <<>>
        /\ pc # "map_variant"
        /\ pc # "idle" =>
              /\ Len(grouped) = 1
              /\ grouped[1].key = XYZ
              /\ ~ grouped[1].is_variant_product
              /\ grouped[1].variants = <<df[1]>>
              /\ prepare_variants_data(grouped[1].variants) = <<>>

\* The row XYZ has been created as a simple product and its mapping written.
C9_Witness ==
    /\ ScenarioXYZ
    /\ pc = "return" /\ cur.kind = "simple" /\ cur.result
    /\ HasProduct(product_mappings, XYZ)

MutatingCalls == {"save_product_mapping", "save_variant_mapping", "delete_product_mapping"}

\* C10: a save_product_mapping, save_variant_mapping or delete_product_mapping
\* whose log insert succeeds appends exactly one entry, for its key, with status
\* success when the call returns True and error when it returns False.
C10_OneLogEntryPerCall ==
    (last.op \in MutatingCalls /\ last.logOk) =>
        /\ Len(sync_log) = last.nlog + 1
        /\ sync_log[Len(sync_log)].internal_reference = last.key
        /\ sync_log[Len(sync_log)].status = "success" <=> last.ret
        /\ sync_log[Len(sync_log)].status = "error" <=> ~ last.ret

\* A failed call that logged its error.
C10_Witness ==
    /\ last.op \in MutatingCalls /\ last.logOk /\ ~ last.ret
    /\ Len(sync_log) = last.nlog + 1

\* The mapping tables a call leaves when its statement took effect
TablesAfter(call) ==
    IF call.op = "save_product_mapping"
    THEN <<UpsertProduct(call.pm, call.key, call.args[1]), call.vm>>
    ELSE IF call.op = "save_variant_mapping"
    THEN <<call.pm, UpsertVariant(call.vm, call.key, call.args[1], call.args[2],
                                  call.args[3], call.args[4])>>
    ELSE <<DeleteProduct(call.pm, call.key), Cascade(call.vm, call.key)>>

\* C11: a save_product_mapping, save_variant_mapping or delete_product_mapping
\* whose sync_log insert fails returns what it returns when the insert succeeds
\* (True exactly when its own statement was committed) and leaves the mapping rows
\* of that outcome; the failed insert adds no log entry.
C11_LogFailureSwallowed ==
    (last.op \in MutatingCalls /\ ~ last.logOk) =>
        /\ last.ret = last.stmt
        /\ <<product_mappings, variant_mappings>> =
              (IF last.stmt THEN TablesAfter(last) ELSE <<last.pm, last.vm>>)
        /\ Len(sync_log) = last.nlog

\* A save whose statement was committed and whose log insert failed.
C11_Witness ==
    /\ last.op = "save_product_mapping" /\ ~ last.logOk /\ last.stmt
    /\ HasProduct(product_mappings, last.key)
    /\ ~ HasProduct(last.pm, last.key)

IsPrefix(a, b) == Len(a) <= Len(b) /\ SubSeq(b, 1, Len(a)) = a

\* C12: the sync log is append-only: every step of a creation run, of an update
\* run (mapping reads, update logging) and every delete_product_mapping with its
\* cascade leaves each entry written so far in place and unchanged, so the number
\* of entries never decreases.
C12_LogAppendOnly == [][IsPrefix(sync_log, sync_log')]_vars

\* A delete that cascaded to variant rows, after a creation run and an update run
\* had logged: their entries are still there.
C12_Witness ==
    /\ last.op = "delete_product_mapping" /\ last.ret /\ last.logOk
    /\ ChildRows(last.vm, last.key) # <<>>
    /\ Len(sync_log) = last.nlog + 1
    /\ \E i, j \in 1..last.nlog :
          /\ sync_log[i].action = "create_variant" /\ sync_log[i].internal_reference = Join(ABC, S)
          /\ sync_log[j].action = "update_product"

RequiredFields == {"REFERENCIA", "DESCRIPCION", "PRECIO", "TIPO"}

\* The row's cell of a required column is empty (NaN) or blank.
Lacks(row, field) ==
    \/ field \in row.na
    \/ field = "REFERENCIA" /\ \A i \in 1..Len(row.REFERENCIA) : row.REFERENCIA[i] = Space
    \/ field = "DESCRIPCION" /\ row.DESCRIPCION = ""
    \/ field = "TIPO" /\ row.TIPO = ""

\* Positions of the trace at which the loop of process_products takes up a record
Starts == {n \in 1..Len(trace) : trace[n].call = "Procesando"}

\* Position at which the i-th record of the run is taken up
StartOf(i) == CHOOSE n \in Starts : Cardinality({k \in Starts : k <= n}) = i

\* What the run did for its i-th record: the events from its being taken up to
\* the next record's, or to the end of the loop
Segment(i) ==
    LET from == StartOf(i)
        later == {n \in (from + 1)..Len(trace) :
                     trace[n].call \in {"Procesando", "log_processing_stats"}}
        to == IF later = {} THEN Len(trace)
              ELSE (CHOOSE n \in later : \A k \in later : n <= k) - 1
    IN  SubSeq(trace, from, to)

RunOver == trace # <<>> /\ trace[Len(trace)].call = "log_processing_stats"

\* C13: a grouped record whose base row lacks REFERENCIA, DESCRIPCION, PRECIO or
\* TIPO is taken up, counted as failed once and left: nothing else is done for it
\* (no remote call, no store call); the loop goes on to the next record, and the
\* run ends with every record taken up.
C13_InvalidRecordSkipped ==
    /\ \A i \in 1..Cardinality(Starts) :
          (\E f \in RequiredFields : Lacks(grouped[i].base_data, f)) =>
              /\ Segment(i) = <<Event("Procesando", grouped[i].key, TRUE),
                                Event("products_failed", grouped[i].key, TRUE)>>
              /\ idx > i
    /\ RunOver => Cardinality(Starts) = Len(grouped)
    /\ pc \in {"loop", "idle"} =>
          tally.failed = Cardinality({n \in 1..Len(trace) : trace[n].call = "products_failed"})

\* An api-mode run is over: its first record failed validation, its second one
\* was created.
C13_Witness ==
    /\ RunOver /\ ~ display_mode
    /\ Len(grouped) = 2
    /\ Lacks(grouped[1].base_data, "PRECIO")
    /\ tally = [processed |-> 1, failed |-> 1]
    /\ \E n \in 1..Len(trace) : trace[n] = Event("Product.save", XYZ, TRUE)

CountOf(events, call) == Cardinality({n \in 1..Len(events) : events[n].call = call})

MappingCalls == {"save_product_mapping", "save_variant_mapping"}

\* A mapping call of the record returned False.
MappingFailed(events) ==
    \E n \in 1..Len(events) : events[n].call \in MappingCalls /\ ~ events[n].ok

\* The record's product was saved and every call made for the record succeeded.
OwnCallsSucceeded(events) ==
    /\ \E n \in 1..Len(events) : events[n].call = "Product.save"
    /\ \A n \in 1..Len(events) : events[n].ok

\* C14: in an api-mode run, a record for which save_product_mapping or
\* save_variant_mapping returned False is counted as failed, once, and not as
\* processed; the outcome of every record is decided by its own calls alone (all of
\* them succeeded: processed), whatever happened to the records before it, and the
\* run ends with every record taken up.
C14_MappingFailureIsLocal ==
    /\ \A i \in 1..Cardinality(Starts) :
          (~ display_mode /\ idx > i) =>
              /\ MappingFailed(Segment(i)) =>
                    /\ CountOf(Segment(i), "products_failed") = 1
                    /\ CountOf(Segment(i), "products_processed") = 0
              /\ OwnCallsSucceeded(Segment(i)) =>
                    /\ CountOf(Segment(i), "products_processed") = 1
                    /\ CountOf(Segment(i), "products_failed") = 0
    /\ RunOver => Cardinality(Starts) = Len(grouped)
    /\ pc \in {"loop", "idle"} => tally.processed = CountOf(trace, "products_processed")

\* The run is over: the product mapping of its first record could not be saved,
\* its second record was created and counted as processed.
C14_Witness ==
    /\ RunOver /\ ~ display_mode
    /\ Len(grouped) = 2
    /\ MappingFailed(Segment(1))
    /\ OwnCallsSucceeded(Segment(2))
    /\ tally = [processed |-> 1, failed |-> 1]

\* The run of process_products ended before its loop: get_location_id raised.
NoLocation == trace # <<>> /\ trace[1] = Event("Location.find", <<>>, FALSE)

\* C15 (as claimed): a batch run that has ended has taken up every one of its
\* records and reported its tally, in the creation flow (process_products) and in
\* the update flow (process_csv_updates), whatever failed for single records.
C15_BatchAlwaysCompletes ==
    /\ (pc = "idle" /\ trace # <<>> /\ trace[1].call \in {"Location.find", "Procesando"}
          /\ ~ NoLocation) =>
          (RunOver /\ Cardinality(Starts) = Len(grouped))
    /\ (pc = "idle" /\ upd.idx > 0) =>
          (upd.summary /\ upd.idx > Len(upd.info))

\* C16: in screen mode (display_mode of process_products, demo_mode of
\* process_csv_updates) no step of the run issues a remote create or update call,
\* and none writes a row of product_mappings, variant_mappings or sync_log
MutationCalls ==
    {"Product.save", "InventoryLevel.set", "requests.put",
     "save_product_mapping", "save_variant_mapping", "_log_sync"}

InScreenRun ==
    \/ display_mode /\ pc \in {"loop", "save", "map_product", "map_variant", "inventory",
                                "extras", "return"}
    \/ upd.demo_mode /\ pc \in {"u_loop", "u_update"}

C16_ScreenModeWritesNothing ==
    [][(InScreenRun \/ InScreenRun') =>
          /\ product_mappings' = product_mappings
          /\ variant_mappings' = variant_mappings
          /\ sync_log' = sync_log
          /\ remote' = remote
          /\ \A i \in DOMAIN trace' : trace'[i].call \notin MutationCalls]_vars

\* a demo run of the update flow is at its end, having fetched the remote product
\* of a mapped reference
C16_Witness ==
    /\ upd.demo_mode /\ pc = "u_loop" /\ upd.idx > Len(upd.info)
    /\ upd.current_product.found
    /\ \E i \in DOMAIN trace : trace[i].call = "requests.get" /\ trace[i].ok

-----------------------------------------------------------------------------
(* SpecMain: main() of main.py on a command line, from its argument checks *)
(* to the end of process_products.                                         *)

Dash == "-"
Plus == "+"
SCREEN == <<"s", "c", "r", "e", "e", "n">>
API == <<"a", "p", "i">>

\* The characters a mode may carry after its first word
ModeChars == {"0", "1", Dash, "x", Plus, Space}

\* The first words of the modes tried
ModePrefixes == {SCREEN \o <<Dash>>, API \o <<Dash>>, API, <<"s", "c", "r", Dash>>}

\* The rows of the input file when it loads
InputFile == <<RowABC_S, RowXYZ>>

\* str.startswith(prefix)
startswith(s, prefix) == Len(s) >= Len(prefix) /\ SubSeq(s, 1, Len(prefix)) = prefix

\* str.split(sep): the parts between the separators
RECURSIVE SplitOn(_, _)
SplitOn(s, sep) ==
    IF s = <<>> THEN << <<>> >>
    ELSE LET rest == SplitOn(Tail(s), sep)
         IN  IF Head(s) = sep
             THEN << <<>> >> \o rest
             ELSE << <<Head(s)>> \o rest[1] >> \o Tail(rest)

UnpacksFirstTwo(parts) == Len(parts) >= 2

\* "mode_type, num_lines = mode.split('-')" raises ValueError unless there are
\* exactly two parts
Unpacks(parts) == Len(parts) = 2

DigitValue(c) == CASE c = "0" -> 0 [] c = "1" -> 1 [] c = "7" -> 7

RECURSIVE DecimalValue(_)
DecimalValue(s) ==
    IF s = <<>> THEN 0
    ELSE DecimalValue(SubSeq(s, 1, Len(s) - 1)) * 10 + DigitValue(s[Len(s)])

\* int(text): blanks around it are dropped, one sign is allowed, the rest must be
\* digits; ok is false where Python raises ValueError
int(text) ==
    LET t == strip(text)
        signed == t # <<>> /\ Head(t) \in {Plus, Dash}
        digits == IF signed THEN Tail(t) ELSE t
        magnitude == DecimalValue(digits)
    IN  IF isdigit(digits)
        THEN [ok |-> TRUE,
              value |-> IF signed /\ Head(t) = Dash THEN 0 - magnitude ELSE magnitude]
        ELSE [ok |-> FALSE, value |-> 0]

\* DataFrame.head(n)
head(frame, n) == SubSeq(frame, 1, IF n < Len(frame) THEN n ELSE Len(frame))

\* sys.exit(code)
Exit(code) == mainst' = [mainst EXCEPT !.pc = "exited", !.exit = code]

Goto(label) == mainst' = [mainst EXCEPT !.pc = label]

\* len(sys.argv) != 3 (main.py 580-594)
MainArgs ==
    /\ mainst.pc = "args"
    /\ IF sys_argv.argc # 3 THEN Exit(1) ELSE Goto("mode")
    /\ UNCHANGED <<storeVars, ops, faults, flowVars, runVars, refVars, trace, updVars, sys_argv>>

\* The mode is validated and taken apart (main.py 599-612)
MainMode ==
    /\ mainst.pc = "mode"
    /\ LET mode == sys_argv.mode
           parts == SplitOn(mode, Dash)
           num_lines == int(parts[2])
       IN  IF ~ (startswith(mode, SCREEN \o <<Dash>>) \/ startswith(mode, API \o <<Dash>>))
           THEN Exit(1)
           ELSE IF ~ Unpacks(parts) \/ ~ num_lines.ok
           THEN Exit(1)
           ELSE IF num_lines.value <= 0
           THEN Exit(1)
           ELSE mainst' = [mainst EXCEPT !.pc = "file", !.mode_type = parts[1],
                                         !.num_lines = num_lines.value]
    /\ UNCHANGED <<storeVars, ops, faults, flowVars, runVars, refVars, trace, updVars, sys_argv>>

\* os.path.exists(input_file) (main.py 614-616)
MainFile ==
    /\ mainst.pc = "file"
    /\ IF sys_argv.file = "missing" THEN Exit(1) ELSE Goto("load")
    /\ UNCHANGED <<storeVars, ops, faults, flowVars, runVars, refVars, trace, updVars, sys_argv>>

\* load_data and df.head(num_lines) (main.py 620-627); load_data returns None for
\* a file it cannot read in any format
MainLoad ==
    /\ mainst.pc = "load"
    /\ IF sys_argv.file = "unreadable"
       THEN /\ Exit(1)
            /\ df' = df
       ELSE /\ df' = head(InputFile, mainst.num_lines)
            /\ Goto(IF mainst.mode_type = API THEN "setup" ELSE "process")
    /\ UNCHANGED <<storeVars, ops, faults, flowVars, grouped, idx, tally, runs, display_mode,
                   refVars, trace, updVars, sys_argv>>

\* setup_shopify_api in api mode (main.py 630-633, 96-119)
MainSetup ==
    \E shopOk \in BOOLEAN :
        /\ mainst.pc = "setup"
        /\ mainst' = [mainst EXCEPT !.configured = TRUE,
                                    !.pc = IF shopOk THEN "process" ELSE "exited",
                                    !.exit = IF shopOk THEN 0 ELSE 1]
        /\ UNCHANGED <<storeVars, ops, faults, flowVars, runVars, refVars, trace, updVars,
                       sys_argv>>

\* process_products is called (main.py 636-639); an exception of get_location_id
\* leaves it and is caught at line 641
MainProcess ==
    \E locationOk \in BOOLEAN :
        /\ mainst.pc = "process"
        /\ process_products(df, mainst.mode_type = SCREEN, locationOk)
        /\ IF locationOk THEN Goto("running") ELSE Exit(1)
        /\ UNCHANGED sys_argv

\* process_products returned: main ends
MainReturn ==
    /\ mainst.pc = "running" /\ pc = "idle"
    /\ Exit(0)
    /\ UNCHANGED <<storeVars, ops, faults, flowVars, runVars, refVars, trace, updVars, sys_argv>>

InitMainRun ==
    /\ InitStore /\ InitFlow /\ InitRun /\ InitRef /\ InitTrace /\ InitUpd
    /\ sys_argv \in
         {a \in [argc : {2, 3, 4},
                 mode : {p \o t : p \in ModePrefixes, t \in SeqsUpTo(ModeChars, MaxSuffix)}
                           \cup {<<>>},
                 file : {"missing", "unreadable", "ok"}] :
             (a.argc = 2) <=> (a.mode = <<>>)}
    /\ mainst = [NoMain EXCEPT !.pc = "args"]

NextMain ==
    \/ MainArgs
    \/ MainMode
    \/ MainFile
    \/ MainLoad
    \/ MainSetup
    \/ MainProcess
    \/ LoopRecord
    \/ FlowSave
    \/ FlowMapProduct
    \/ FlowMapVariant
    \/ FlowInventory
    \/ FlowExtras
    \/ LoopReturn
    \/ EndRun
    \/ MainReturn

SpecMain == InitMainRun /\ [][NextMain]_vars

\* C17: a command line with a wrong argument count, a mode that does not start
\* with screen- or api-, a part after the dash that is not a positive integer, a
\* missing file or a file load_data cannot read, never gets main past its checks:
\* the API is not configured, no record is processed, and main exits with code 1
PositiveIntegerText(t) ==
    \E i, j \in 1..Len(t) :
        /\ i <= j
        /\ \A k \in i..j : t[k] \in Digits
        /\ \E k \in i..j : t[k] # "0"
        /\ \A k \in (j + 1)..Len(t) : t[k] = Space
        /\ \A k \in 1..(i - 1) : t[k] = Space \/ (k = i - 1 /\ t[k] = Plus)

RECURSIVE AfterDash(_)
AfterDash(s) ==
    IF s = <<>> THEN <<>>
    ELSE IF Head(s) = Dash THEN Tail(s) ELSE AfterDash(Tail(s))

ModeStartOk ==
    \E word \in {SCREEN, API} :
        /\ Len(sys_argv.mode) > Len(word)
        /\ \A k \in 1..Len(word) : sys_argv.mode[k] = word[k]
        /\ sys_argv.mode[Len(word) + 1] = Dash

BadCommandLine ==
    \/ sys_argv.argc # 3
    \/ ~ ModeStartOk
    \/ ~ PositiveIntegerText(AfterDash(sys_argv.mode))
    \/ sys_argv.file \in {"missing", "unreadable"}

C17_BadCommandLineExits ==
    (mainst.pc # "none" /\ BadCommandLine) =>
        /\ mainst.pc \in {"args", "mode", "file", "load", "exited"}
        /\ mainst.pc = "exited" => mainst.exit = 1
        /\ ~ mainst.configured
        /\ runs = 0 /\ trace = <<>> /\ remote = <<>> /\ product_mappings = <<>>

\* main has exited on a mode that starts well and whose number is not one
C17_Witness ==
    /\ mainst.pc = "exited" /\ mainst.exit = 1
    /\ sys_argv.argc = 3 /\ ModeStartOk /\ sys_argv.file = "ok"
    /\ ~ PositiveIntegerText(AfterDash(sys_argv.mode))
    /\ Len(SplitOn(sys_argv.mode, Dash)) = 3

\* The attempts of one call for one key in the run
Attempts(call, key) ==
    Cardinality({n \in 1..Len(trace) : trace[n].call = call /\ trace[n].key = key})

\* The keys of the save_variant_mapping attempts made for the i-th record, in order
VariantAttempts(i) ==
    LET made == SelectSeq(Segment(i), LAMBDA e : e.call = "save_variant_mapping")
    IN  [k \in 1..Len(made) |-> made[k].key]

\* The SKUs of the variant rows of the i-th record, in order
VariantRowSkus(i) ==
    LET data == prepare_variants_data(grouped[i].variants)
    IN  [k \in 1..Len(data) |-> data[k].sku]

\* C18 (as claimed): within one run no product is saved twice for one record and
\* no mapping key is upserted twice, whether the attempt succeeds or fails
C18_OneAttemptPerKey ==
    \A n \in 1..Len(trace) :
        trace[n].call \in {"Product.save"} \cup MappingCalls =>
            Attempts(trace[n].call, trace[n].key) = 1

\* C18 (amended): within one run each grouped record causes at most one Product.save
\* and one save_product_mapping attempt, and each of its variant rows at most one
\* save_variant_mapping attempt, made in the order of the rows; a key carried by
\* two rows is attempted once for each of them, and no failed attempt is repeated
C18_OneAttemptPerRecordAndRow ==
    /\ \A n \in 1..Len(trace) :
          trace[n].call \in {"Product.save", "save_product_mapping"} =>
              Attempts(trace[n].call, trace[n].key) = 1
    /\ \A i \in 1..Cardinality(Starts) :
          /\ CountOf(Segment(i), "Product.save") <= 1
          /\ CountOf(Segment(i), "save_product_mapping") <= 1
          /\ IsPrefix(VariantAttempts(i), VariantRowSkus(i))
          /\ \A n \in 1..Len(Segment(i)) :
                ~ Segment(i)[n].ok =>
                    \A m \in (n + 1)..Len(Segment(i)) :
                        Segment(i)[m].call \in {"products_failed", "sleep"}

\* The run is over: its record had two rows of one SKU, the mapping of the first
\* was saved and the attempt for the second failed and was not repeated.
C18_Witness ==
    /\ RunOver /\ ~ display_mode
    /\ \E n \in 1..Len(trace) :
          /\ trace[n] = Event("save_variant_mapping", Join(ABC, S), FALSE)
          /\ Attempts("save_variant_mapping", Join(ABC, S)) = 2

\* The remote mutation calls of process_products
RemoteMutations == {"Product.save", "InventoryLevel.set"}

\* C19 (as claimed): in an api-mode run a pause lies between any two consecutive
\* remote mutation calls, those made for one record included
C19_PauseBetweenRemoteMutations ==
    \A n \in 1..Len(trace), m \in 1..Len(trace) :
        (/\ n < m
         /\ trace[n].call \in RemoteMutations
         /\ trace[m].call \in RemoteMutations) =>
            \E k \in (n + 1)..(m - 1) : trace[k].call = "sleep"

\* C20 (as claimed): a product mapping is written only after the remote creation
\* for its reference succeeded, and, outside the moment between a creation and
\* the saving of its mapping, the stored remote product id is the id of the most
\* recent remote product created for the reference
LatestRemote(ref) ==
    LET made == {i \in 1..Len(remote) : remote[i].sku = ref}
    IN  CHOOSE i \in made : \A j \in made : j <= i

C20_MappingHoldsLatestRemoteId ==
    \A r \in 1..Len(product_mappings) :
        LET row == product_mappings[r]
        IN  /\ \E i \in 1..Len(remote) : remote[i].sku = row.internal_reference
            /\ pc # "map_product" =>
                  row.shopify_product_id = remote[LatestRemote(row.internal_reference)].id

-----------------------------------------------------------------------------
(* SpecPayload: group_variants over rows with well-formed and malformed     *)
(* references, then the product create_variant_product builds for each     *)
(* bucket before it saves it.                                              *)

RowTrailing == Row(ABC \o <<Slash>>, "Anillo", 10, {})
RowDouble == Row(ABC \o <<Slash, Slash>> \o S, "Anillo", 10, {})

PayloadRows == {RowABC_S, RowABC_M, RowABC, RowPadded, RowTrailing, RowDouble, RowXYZ}

PayloadFrames == SeqsUpTo(PayloadRows, MaxRows)

Range(q) == {q[i] : i \in 1..Len(q)}

\* sorted(list(values)) of a set of texts
RECURSIVE sorted(_)
sorted(values) ==
    IF values = {} THEN <<>>
    ELSE LET least == CHOOSE v \in values : \A w \in values : w # v => Less(v, w)
         IN  <<least>> \o sorted(values \ {least})

\* The sizes as they come, neither sorted nor made distinct.
OptionValuesAsListed(tallas) == tallas

\* sorted(list(set(tallas))) (main.py 238)
OptionValues(tallas) == sorted(Range(tallas))

\* shopify.Variant({...}) of one entry of variants_data (main.py 243-251)
VariantPayload(var_data) ==
    [option1 |-> var_data.size, price |-> var_data.price, sku |-> var_data.sku]

\* new_product of create_variant_product as it stands before save() (main.py 228-254)
NewVariantProduct(product_data, variants_data) ==
    [title |-> product_data.title,
     options |-> <<[name |-> "Talla",
                    values |-> OptionValues([k \in 1..Len(variants_data) |->
                                                variants_data[k].size])]>>,
     variants |-> [k \in 1..Len(variants_data) |-> VariantPayload(variants_data[k])]]

InitPayload ==
    /\ InitStore /\ InitRef /\ InitTrace /\ InitUpd /\ InitMain
    /\ remote = <<>>
    /\ cur = NoRecord
    /\ pc = "grouping"
    /\ df \in PayloadFrames
    /\ grouped = <<>>
    /\ idx = 1
    /\ tally = [processed |-> 0, failed |-> 0]
    /\ runs = 0
    /\ display_mode = FALSE

\* The next bucket is prepared; for a bucket with variants create_variant_product
\* builds its product (main.py 437-444, 228-254)
BuildPayload ==
    /\ pc = "grouped" /\ idx <= Len(grouped)
    /\ LET info == grouped[idx]
           product_data == prepare_product_data(info.base_data, info.key)
           variants_data == prepare_variants_data(info.variants)
       IN  cur' = IF info.is_variant_product
                  THEN [NoRecord EXCEPT !.kind = "variant", !.i = idx,
                                        !.product_data = product_data,
                                        !.variants_data = variants_data,
                                        !.new_product =
                                            NewVariantProduct(product_data, variants_data)]
                  ELSE [NoRecord EXCEPT !.kind = "simple", !.i = idx,
                                        !.product_data = product_data]
    /\ idx' = idx + 1
    /\ UNCHANGED <<storeVars, ops, faults, remote, pc, df, grouped, tally, runs,
                   display_mode, refVars, trace, updVars, mainVars>>

NextPayload == GroupStep \/ GroupReturn \/ BuildPayload

SpecPayload == InitPayload /\ [][NextPayload]_vars

\* The rows of a bucket that carry a '/'-suffix: the text between the first '/'
\* of the cleaned reference and its end or next '/' is not empty
SuffixOf(row) ==
    LET ref == RowReference(row)
        at == FirstSlash(ref)
        rest == SubSeq(ref, at + 1, Len(ref))
        stop == IF \E k \in 1..Len(rest) : rest[k] = Slash
                THEN (CHOOSE k \in 1..Len(rest) :
                          rest[k] = Slash /\ \A j \in 1..(k - 1) : rest[j] # Slash) - 1
                ELSE Len(rest)
    IN  SubSeq(rest, 1, stop)

CarriesSuffix(row) ==
    /\ \E k \in 1..Len(RowReference(row)) : RowReference(row)[k] = Slash
    /\ SuffixOf(row) # <<>>

SuffixRows(i) == SelectSeq(grouped[i].variants, CarriesSuffix)

Carrying(key) ==
    {n \in 1..Len(csv) :
        /\ "Variant SKU" \notin csv[n].na /\ csv[n].Variant_SKU # <<>>
        /\ NormaliseReference(csv[n].Variant_SKU) = key}

FirstCarrying(key) == CHOOSE n \in Carrying(key) : \A k \in Carrying(key) : n <= k

\* The positions of the rows that repeat a reference already seen
LaterRows == {n \in 1..Len(csv) : \E key \in {upd.info[i].key : i \in 1..Len(upd.info)} :
                                     n \in Carrying(key) /\ n # FirstCarrying(key)}

\* C22: in an update run, first_occurrence of each reference is the first row that
\* carries it and count the number of rows that carry it; duplicated_rows lists
\* every later row, in input order; and every title a remote product was updated
\* to is the Title of the first row of a reference, never one of a later row
C22_FirstOccurrenceWins ==
    upd.idx > 0 =>
        /\ \A i \in 1..Len(upd.info) :
              LET entry == upd.info[i]
              IN  /\ Carrying(entry.key) # {}
                  /\ entry.first_occurrence = csv[FirstCarrying(entry.key)]
                  /\ entry.count = Cardinality(Carrying(entry.key))
        /\ Len(upd.duplicated_rows) = Cardinality(LaterRows)
        /\ \A k \in 1..Len(upd.duplicated_rows) :
              LET d == upd.duplicated_rows[k]
              IN  /\ d.row_number \in LaterRows
                  /\ d.reference = NormaliseReference(csv[d.row_number].Variant_SKU)
                  /\ d.title = csv[d.row_number].Title
                  /\ k > 1 => upd.duplicated_rows[k - 1].row_number < d.row_number
        /\ \A p \in 1..Len(remote) :
              (\E n \in 1..Len(csv) : remote[p].title = csv[n].Title) =>
                  \E i \in 1..Len(upd.info) :
                      remote[p].title = csv[FirstCarrying(upd.info[i].key)].Title

\* The CSV carries XYZ twice with two titles; the run is over and the remote
\* product of XYZ has the title of the first row.
C22_Witness ==
    /\ csv = <<UpdXYZ, UpdXYZ_again>>
    /\ upd.summary /\ upd.total_success = 1
    /\ Len(upd.duplicated_rows) = 1
    /\ \E p \in 1..Len(remote) : remote[p].title = UpdXYZ.Title

\* The text of a row's cleaned reference before its first '/'
BaseOf(row) ==
    LET ref == RowReference(row)
    IN  IF \E k \in 1..Len(ref) : ref[k] = Slash
        THEN SubSeq(ref, 1, FirstSlash(ref) - 1)
        ELSE ref

\* The rows group_variants has scanned so far
Scanned == IF pc = "grouping" THEN idx - 1 ELSE Len(df)

\* C23: at every point of group_variants, base_data of each bucket is the first
\* row scanned, in input order, whose base reference is the bucket's key, with
\* or without a '/'-suffix; later rows of the bucket never replace it
C23_BaseDataIsFirstRow ==
    \A i \in 1..Len(grouped) :
        LET mine == {n \in 1..Scanned : BaseOf(df[n]) = grouped[i].key}
        IN  /\ mine # {}
            /\ grouped[i].base_data = df[CHOOSE n \in mine : \A k \in mine : n <= k]

\* The bare row ABC came first and ABC/S after it: the bucket has become a
\* variant product and its base_data is still the bare row.
C23_Witness ==
    /\ pc = "grouped" /\ df = <<RowABC, RowABC_S>>
    /\ Len(grouped) = 1
    /\ grouped[1].is_variant_product
    /\ grouped[1].base_data = RowABC

\* C24: in an api-mode run the two counters together count the records taken up
\* and left, at every turn of the loop and when it ends: each record adds one to
\* exactly one of them, whether it failed validation, raised, was created or
\* failed to be created
C24_CountersPartitionRecords ==
    (~ display_mode /\ runs > 0 /\ ~ NoLocation) =>
        /\ tally.processed + tally.failed = idx - 1
        /\ RunOver => tally.processed + tally.failed = Len(grouped)
        /\ \A i \in 1..Cardinality(Starts) :
              idx > i =>
                  CountOf(Segment(i), "products_processed")
                     + CountOf(Segment(i), "products_failed") = 1
        /\ tally.processed = CountOf(trace, "products_processed")
        /\ tally.failed = CountOf(trace, "products_failed")

\* The run is over: preparing its first record raised (empty STOCK), its second
\* record was created.
C24_Witness ==
    /\ RunOver /\ ~ display_mode
    /\ df = <<RowNoStock, RowXYZ>>
    /\ tally = [processed |-> 1, failed |-> 1]
    /\ Len(grouped) = 2

\* The position in the run at which the record of event n was taken up
RecordStart(n) ==
    CHOOSE s \in Starts : s <= n /\ \A t \in Starts : t <= n => t <= s

\* C25: an inventory level is set right after the mapping of its product (simple
\* product) or of its variant was saved with success, never before; after a
\* mapping write that failed nothing more is called for the record (no inventory,
\* metafield or image call, no further mapping); and the mappings written for the
\* record before the failure are still in the store
C25_InventoryAfterMapping ==
    \A n \in 1..Len(trace) :
        /\ trace[n].call = "InventoryLevel.set" =>
              /\ n > 1
              /\ trace[n - 1].call \in MappingCalls
              /\ trace[n - 1].key = trace[n].key
              /\ trace[n - 1].ok
        /\ (trace[n].call \in MappingCalls /\ ~ trace[n].ok) =>
              /\ \A m \in (n + 1)..Len(trace) :
                    RecordStart(m) = RecordStart(n) =>
                        trace[m].call \in {"products_failed", "sleep", "log_processing_stats"}
              /\ \A m \in RecordStart(n)..(n - 1) :
                    /\ (trace[m].call = "save_product_mapping" /\ trace[m].ok) =>
                          HasProduct(product_mappings, trace[m].key)
                    /\ (trace[m].call = "save_variant_mapping" /\ trace[m].ok) =>
                          VariantRows(variant_mappings, trace[m].key) # <<>>

\* The run is over: for the record ABC the product mapping and the mapping of
\* ABC/S were saved and the inventory of ABC/S set, the mapping of ABC/M failed;
\* no inventory was set for ABC/M and the two mappings are in the store.
C25_Witness ==
    /\ RunOver /\ ~ display_mode
    /\ \E n \in 1..Len(trace) : trace[n] = Event("save_variant_mapping", Join(ABC, M), FALSE)
    /\ \E n \in 1..Len(trace) : trace[n] = Event("InventoryLevel.set", Join(ABC, S), TRUE)
    /\ \A n \in 1..Len(trace) : trace[n].call = "InventoryLevel.set" =>
                                   trace[n].key # Join(ABC, M)
    /\ HasProduct(product_mappings, ABC)
    /\ VariantRows(variant_mappings, Join(ABC, S)) # <<>>

\* C26: save_variant_mapping on an internal_sku that is already mapped leaves the
\* row's parent_reference as it was, whatever parent_reference it is called with;
\* when it succeeds it writes the remote ids, size and price only, and
\* get_product_mapping of a newly named parent does not list the variant
C26_ParentReferenceKept ==
    (last.op = "save_variant_mapping" /\ HasVariant(last.vm, last.key)) =>
        LET old == VariantRows(last.vm, last.key)[1]
            now == VariantRows(variant_mappings, last.key)
            named == get_product_mapping(product_mappings, variant_mappings,
                                         last.args[2], TRUE)
        IN  /\ Len(now) = 1
            /\ now[1].parent_reference = old.parent_reference
            /\ last.stmt => VariantWritten(now[1], last.args[1], last.args[3], last.args[4])
            /\ ~ last.stmt => now[1] = old
            /\ (last.args[2] # old.parent_reference /\ named.found) =>
                  \A k \in 1..Len(named.variants) :
                      named.variants[k].internal_sku # last.key

\* ABC/S, mapped under ABC, was saved again under the mapped product XYZ with
\* another remote variant: the call succeeded and the row still belongs to ABC.
C26_Witness ==
    /\ last.op = "save_variant_mapping" /\ last.stmt
    /\ HasVariant(last.vm, last.key)
    /\ VariantRows(last.vm, last.key)[1].parent_reference = ABC
    /\ last.args[2] = XYZ
    /\ HasProduct(product_mappings, XYZ)
    /\ VariantRows(last.vm, last.key)[1].shopify_variant_id # last.args[1].id
    /\ VariantRows(variant_mappings, last.key)[1].parent_reference = ABC

\* C27 (as claimed): a save_product_mapping, save_variant_mapping or
\* delete_product_mapping whose statement fails leaves both mapping tables as
\* they were, returns False, and has appended an error entry to the log
C27_FailedStatementLogged ==
    (last.op \in MutatingCalls /\ ~ last.stmt) =>
        /\ <<product_mappings, variant_mappings>> = <<last.pm, last.vm>>
        /\ ~ last.ret
        /\ Len(sync_log) = last.nlog + 1
        /\ sync_log[Len(sync_log)] = LogEntry(last.key, sync_log[Len(sync_log)].action, FALSE)

\* C27 (amended): a call whose statement fails leaves both mapping tables as they
\* were and returns False; it appends one error entry for its key when the log
\* insert succeeds, and no entry at all when the log insert fails as well
C27_FailedStatementRolledBack ==
    (last.op \in MutatingCalls /\ ~ last.stmt) =>
        /\ <<product_mappings, variant_mappings>> = <<last.pm, last.vm>>
        /\ ~ last.ret
        /\ last.logOk =>
              /\ Len(sync_log) = last.nlog + 1
              /\ sync_log[Len(sync_log)].internal_reference = last.key
              /\ sync_log[Len(sync_log)].status = "error"
        /\ ~ last.logOk => Len(sync_log) = last.nlog

\* The delete of a mapped product with a mapped variant failed: both rows are
\* still there and the error was logged.
C27_Witness ==
    /\ last.op = "delete_product_mapping" /\ ~ last.stmt /\ last.logOk
    /\ HasProduct(product_mappings, last.key)
    /\ ChildRows(variant_mappings, last.key) # <<>>
    /\ sync_log[Len(sync_log)].status = "error"

\* What a step has added to the run's trace
Added == SubSeq(trace', Len(trace) + 1, Len(trace'))

\* C28: no step of an update run inserts, changes or deletes a row of
\* product_mappings or variant_mappings; a step writes to sync_log at most by
\* appending one update_product entry for the reference it has just sent a PUT
\* for, with status success after a 200 and error after an exception, and never
\* after a PUT answered with another status
C28_UpdateFlowOnlyLogs ==
    [][(pc \in {"u_loop", "u_update"} \/ pc' \in {"u_loop", "u_update"}) =>
          /\ product_mappings' = product_mappings
          /\ variant_mappings' = variant_mappings
          /\ \/ sync_log' = sync_log
             \/ /\ Len(sync_log') = Len(sync_log) + 1
                /\ SubSeq(sync_log', 1, Len(sync_log)) = sync_log
                /\ Len(Added) >= 2
                /\ Added[1].call = "requests.put"
                /\ Added[1].ok \/ Added[2].call = "Error en update_product_with_metafields"
                /\ sync_log'[Len(sync_log')] =
                      [internal_reference |-> Added[1].key, action |-> "update_product",
                       status |-> IF Added[1].ok THEN "success" ELSE "error"]]_vars

\* The PUT for a mapped product raised: the error was logged, the mappings are
\* as the creation run left them.
C28_Witness ==
    /\ pc = "u_loop" /\ ~ upd.demo_mode
    /\ \E n \in 1..Len(trace) : trace[n].call = "Error en update_product_with_metafields"
    /\ sync_log # <<>>
    /\ sync_log[Len(sync_log)].action = "update_product"
    /\ sync_log[Len(sync_log)].status = "error"
    /\ product_mappings # <<>>

-----------------------------------------------------------------------------
(* SpecLookup: a creation run that maps the reference 0007, then update     *)
(* runs over CSVs whose Variant SKU column is text and carries 0007 and a  *)
(* padded 7.                                                               *)

REF0007 == <<"0", "0", "0", "7">>

Row0007 == Row(REF0007, "Anillo", 10, {})

Upd0007 == UpdateRow(REF0007, <<REF0007, "Nuevo">>, "str", {})
UpdPadded7 == UpdateRow(<<Space, "7">>, <<REF0007, "Otro">>, "str", {})

LookupCreateFrames == {<<Row0007>>, <<RowABC_S, Row0007>>}

\* The column holds a text cell (XYZ), so pandas keeps every cell as text
LookupUpdateFrames ==
    {<<UpdXYZ, Upd0007>>, <<UpdXYZ, UpdPadded7>>, <<UpdXYZ, Upd0007, UpdPadded7>>}

InitLookup ==
    /\ InitStore /\ InitFlow /\ InitRef /\ InitTrace /\ InitMain
    /\ df \in LookupCreateFrames
    /\ csv \in LookupUpdateFrames
    /\ upd = NoUpdate
    /\ grouped = <<>>
    /\ idx = 0
    /\ tally = [processed |-> 0, failed |-> 0]
    /\ runs = 0
    /\ display_mode = FALSE

NextLookup ==
    \/ StartRun
    \/ LoopRecord
    \/ FlowSave
    \/ FlowMapProduct
    \/ FlowMapVariant
    \/ FlowInventory
    \/ FlowExtras
    \/ LoopReturn
    \/ EndRun
    \/ StartUpdate
    \/ UpdateRecord
    \/ UpdateProduct
    \/ EndUpdate

SpecLookup == InitLookup /\ [][NextLookup]_vars

\* The keys of reference_info in the current update run
InfoKeys == {upd.info[i].key : i \in 1..Len(upd.info)}

\* C29 (as claimed): in an update run the normalisation is idempotent, every key
\* of reference_info is the key its mapping is looked up under, two distinct keys
\* are looked up under distinct keys, and no mapping is sent two PUTs in one run
C29_KeysConsistent ==
    upd.idx > 0 =>
        /\ \A k \in InfoKeys : NormaliseReference(k) = k
        /\ \A k \in InfoKeys : LookupReference(k) = k
        /\ \A j, k \in InfoKeys : j # k => LookupReference(j) # LookupReference(k)
        /\ \A n, m \in 1..Len(trace) :
              (/\ n < m
               /\ trace[n].call = "requests.put"
               /\ trace[m].call = "requests.put") =>
                  LookupReference(trace[n].key) # LookupReference(trace[m].key)

\* A run has sent two PUTs that succeeded to the product mapped under 0007.
C29_UpdatedTwice ==
    \E n, m \in 1..Len(trace) :
        /\ n < m
        /\ trace[n] = Event("requests.put", REF0007, TRUE)
        /\ trace[m] = Event("requests.put", <<"7">>, TRUE)

-----------------------------------------------------------------------------
(* SpecClean: clean_value applied to a cell, and again to its own result.   *)

\* The cells: None, and every short text of blanks and the letters of nan / NaN
CellChars == {"n", "a", "N", "A", Space}

Cells == SeqsUpTo(CellChars, MaxLen) \cup {None}

InitClean ==
    /\ InitStore /\ InitRun /\ InitTrace /\ InitUpd /\ InitMain
    /\ remote = <<>>
    /\ cur = NoRecord
    /\ pc = "clean"
    /\ reference \in Cells
    /\ resolved = [done |-> FALSE, once |-> <<>>, twice |-> <<>>]

\* clean_value(value)
Clean ==
    /\ pc = "clean"
    /\ resolved' = [resolved EXCEPT !.once = clean_value(reference = None, reference)]
    /\ pc' = "again"
    /\ UNCHANGED <<storeVars, ops, faults, remote, cur, runVars, reference, trace, updVars,
                   mainVars>>

\* clean_value(clean_value(value)): the result of the first call is a str
CleanAgain ==
    /\ pc = "again"
    /\ resolved' = [resolved EXCEPT !.twice = clean_value(FALSE, resolved.once),
                                    !.done = TRUE]
    /\ pc' = "cleaned"
    /\ UNCHANGED <<storeVars, ops, faults, remote, cur, runVars, reference, trace, updVars,
                   mainVars>>

NextClean == Clean \/ CleanAgain

SpecClean == InitClean /\ [][NextClean]_vars

\* C30 (as claimed): the result of clean_value is never the text nan or NaN, has
\* no blank at either end, and clean_value applied to it returns it unchanged
C30_CleanValueIdempotent ==
    /\ pc \in {"again", "cleaned"} =>
          /\ resolved.once \notin {<<"n", "a", "n">>, <<"N", "a", "N">>}
          /\ resolved.once # <<>> =>
                (Head(resolved.once) # Space /\ resolved.once[Len(resolved.once)] # Space)
    /\ pc = "cleaned" => resolved.twice = resolved.once

====
